---- MODULE Spec2Model ----
(***************************************************************************)
(* K.A.R.I: the D.E.V.I.L. Core orchestrator (src/core/devil_core.py) and  *)
(* the Decision Engine (src/internal/decision_engine/decision_engine.py)   *)
(* as state machines.                                                      *)
(*                                                                         *)
(*   SpecSched  the Decision Engine: decision cycles started by its own    *)
(*              timer loop and by the orchestrator's pulse, on a wall      *)
(*              clock of whole seconds.                                    *)
(*   Spec       the orchestrator: attach, pulse, control commands.         *)
(*                                                                         *)
(* Scores are kept in tenths (the mood multipliers 0.6 .. 1.3 become       *)
(* 6 .. 13) so that the arithmetic stays in the integers.                  *)
(***************************************************************************)
EXTENDS Integers, Sequences, FiniteSets, TLC

VARIABLES
    now,            \* time.time(), whole seconds
    ready,          \* DecisionEngine.ready
    last_run,       \* DecisionEngine._last_run  (0: the key is absent)
    last_chat,      \* DecisionEngine._last_chat
    journal,        \* number of decisions forwarded to _record_decision
    cycles,         \* decision cycles run so far
    pc,             \* where tick() stands: idle, evaluated, executed
    delivered,      \* history: when each action was last dispatched with success
    ev,             \* the running decision cycle: what it saw and what it did
    quiet_hours,    \* DecisionEngine._quiet_hours
    boot,           \* main(): scanning for modules, or running (run_forever)
    scan_left,      \* module files scan_and_attach has not visited yet
    attaching,      \* the attach() in progress: [name, step], or NoAttach
    modules,        \* DEVILCore.modules: the registry, in insertion order
    mod_debug,      \* each module object's own debug attribute
    mod_trace,      \* each module object's own trace attribute (where it has one)
    mod_ready,      \* each module object's own ready attribute
    debug,          \* DEVILCore.debug
    trace,          \* DEVILCore.trace
    tick_count,     \* DEVILCore.tick_count
    data_store_tick,\* DEVILCore.data_store["tick"]
    attached_internal,
    attached_prosthetic,
    ready_modules,  \* DEVILCore.ready_modules, a function on its keys
    ready_writes,   \* history: how often each key of ready_modules was written
    pulses,         \* history: calls of DEVILCore.pulse()
    cpc,            \* where the orchestrator's pulse() stands: idle, pulsed
    pulse,          \* the running pulse: what it dispatched
    toggles,        \* history: the latest `debug toggle` commands in a row
    scanned,        \* history: the module files scan_and_attach has reached
    conns,          \* the control connections: where each _handle_client stands
    ctl,            \* the command _dispatch_command has just served, or NoDispatch
    socket_task,    \* DEVILCore._socket_task: none, scheduled, serving, failed
    ghost_modules,  \* DEVILCore.ghost_modules: the module keys the scan skips
    tasks,          \* the tasks pulse() created that have not run to their end
    mood_scores,    \* Mood Engine: self.scores
    override_mood,  \* Mood Engine: self.override_mood
    current_mood,   \* Mood Engine: self._current_mood
    cortex,         \* Mood Engine: a memory cortex is bound (initialize ran)
    persisted,      \* the mood last handed to cortex.set_current_mood
    last_defcon,    \* Mood Engine: self._last_defcon
    last_defcon_ts, \* Mood Engine: self._last_defcon_ts
    announced,      \* history: the latest announcement that went out
    mop,            \* the Mood Engine operation that has just run, or NoMoodOp
    pending,        \* the operation suspended inside _announce_defcon, or NoMoodOp
    mops            \* Mood Engine operations so far

schedVars ==
    <<now, ready, last_run, last_chat, journal, cycles, pc, delivered, ev,
      quiet_hours>>

coreVars ==
    <<boot, scan_left, attaching, modules, mod_debug, mod_trace, mod_ready,
      debug, trace, tick_count, data_store_tick, attached_internal,
      attached_prosthetic, ready_modules, ready_writes, pulses, cpc, pulse,
      toggles, scanned, ghost_modules, tasks>>

ctlVars == <<conns, ctl, socket_task>>

moodVars ==
    <<mood_scores, override_mood, current_mood, cortex, persisted, last_defcon,
      last_defcon_ts, announced, mop, pending, mops>>

vars == <<schedVars, coreVars, ctlVars, moodVars>>

None == "none"

(***************************************************************************)
(* Bounds of the model.                                                    *)
(***************************************************************************)
Horizon == 310
MaxCycles == 2

(***************************************************************************)
(* The policy table, DecisionEngine.__init__.                              *)
(***************************************************************************)
tick_seconds == 10
announce_gap == 5

ActionNames ==
    {"wifi_recon_dump", "wifi_greet_new_ssid", "report_health",
     "adjust_mood_from_net", "banter_if_idle",
     "periodic_wifi_summary", "periodic_vitals_summary"}

Policy(a) ==
    CASE a = "wifi_recon_dump" ->
           [module |-> "Net Synapse", method |-> "recon_dump",
            cooldown |-> 300, defcon_max |-> 3, say |-> FALSE, args |-> FALSE]
      [] a = "wifi_greet_new_ssid" ->
           [module |-> None, method |-> None,
            cooldown |-> 90, defcon_max |-> 5, say |-> TRUE, args |-> FALSE]
      [] a = "report_health" ->
           [module |-> "Pulse Matrix", method |-> "get_vitals",
            cooldown |-> 180, defcon_max |-> 4, say |-> FALSE, args |-> FALSE]
      [] a = "adjust_mood_from_net" ->
           [module |-> "Mood Engine", method |-> "update_from_network",
            cooldown |-> 60, defcon_max |-> 5, say |-> FALSE, args |-> TRUE]
      [] a = "banter_if_idle" ->
           [module |-> "VoiceBox", method |-> "banter",
            cooldown |-> 120, defcon_max |-> 5, say |-> FALSE, args |-> FALSE]
      [] a = "periodic_wifi_summary" ->
           [module |-> None, method |-> None,
            cooldown |-> 120, defcon_max |-> 5, say |-> TRUE, args |-> FALSE]
      [] a = "periodic_vitals_summary" ->
           [module |-> None, method |-> None,
            cooldown |-> 120, defcon_max |-> 5, say |-> TRUE, args |-> FALSE]

\* The clock starts at an epoch time far past every cooldown: time.time() at boot.
BootTime == 100 * tick_seconds
MaxTime == BootTime + Horizon

(***************************************************************************)
(* The shared blackboard as the engine reads it.  The blackboard holds     *)
(* free-form facts published by modules; a cycle sees one of these.        *)
(*   defcon     0: no "defcon" key (or a falsy one)                         *)
(*   nets       number of entries of "networks" carrying ssid and signal   *)
(*   last_wifi  "last_seen_wifi" is set                                    *)
(*   cpu        "cpu_usage": low, high (> 70), or bad (not a number)       *)
(***************************************************************************)
Blackboards ==
    [defcon : {0, 3, 5}, nets : {0, 1, 5}, last_wifi : BOOLEAN,
     cpu : {"low", "high", "bad"}]

\* What MemoryCortex.get_current_mood() may hand back ("" : nothing stored).
MemoryMoods == {"", "glitched", "dreamy"}

\* DecisionEngine._get_shared: the snapshot of a cycle.
GetShared(bb, memMood) ==
    [defcon      |-> IF bb.defcon # 0 THEN bb.defcon ELSE 4,
     mood        |-> IF memMood # "" THEN memMood ELSE "neutral",
     best_signal |-> bb.nets > 0,
     wifi_seen   |-> bb.nets,
     last_wifi   |-> bb.last_wifi,
     cpu         |-> bb.cpu,
     last_ui     |-> 0]

\* The policy entries' score lambdas; ScoreRaises: the lambda throws.
ScoreRaises(a, s) == a = "report_health" /\ s.cpu = "bad"

ScoreFn(a, s, t) ==
    CASE a = "wifi_recon_dump"         -> IF s.wifi_seen >= 5 THEN 12 ELSE 5
      [] a = "wifi_greet_new_ssid"     -> IF s.last_wifi THEN 9 ELSE 0
      [] a = "report_health"           -> IF s.cpu = "high" THEN 8 ELSE 2
      [] a = "adjust_mood_from_net"    -> IF s.best_signal THEN 6 ELSE 0
      [] a = "banter_if_idle"          -> IF t - s.last_ui > 180 THEN 6 ELSE 0
      [] a = "periodic_wifi_summary"   -> 3
      [] a = "periodic_vitals_summary" -> 3

BaseScoreOnError(a, s, t) == IF ScoreRaises(a, s) THEN 1 ELSE ScoreFn(a, s, t)
\* evaluate(): base_score, 0.0 when the lambda throws.
BaseScore(a, s, t) == IF ScoreRaises(a, s) THEN 0 ELSE ScoreFn(a, s, t)

MoodBiasMutes(mood) == IF mood = "glitched" THEN 0 ELSE 10
\* evaluate(): the mood_bias table, in tenths; 1.0 for a mood it does not list.
MoodBias(mood) ==
    CASE mood = "happy"    -> 12
      [] mood = "excited"  -> 13
      [] mood = "angry"    -> 8
      [] mood = "sad"      -> 7
      [] mood = "anxious"  -> 9
      [] mood = "glitched" -> 6
      [] mood = "neutral"  -> 10
      [] OTHER             -> 10

FinalScore(a, s, t) == BaseScore(a, s, t) * MoodBias(s.mood)

\* evaluate(): the two `continue` gates.
DefconGateNone(a, s) == TRUE
DefconGate(a, s) == ~(s.defcon > Policy(a).defcon_max)
CooldownGateNone(a, lr, t) == TRUE
CooldownGateTickInterval(a, lr, t) == ~(t - lr[a] < tick_seconds)
CooldownGate(a, lr, t) == ~(t - lr[a] < Policy(a).cooldown)

\* evaluate(): the scores dictionary, as a function that is 0 off its keys.
Evaluate(s, lr, t) ==
    [a \in ActionNames |->
        IF DefconGate(a, s) /\ CooldownGate(a, lr, t) /\ FinalScore(a, s, t) > 0
        THEN FinalScore(a, s, t) ELSE 0]

Candidates(scores) == {a \in ActionNames : scores[a] > 0}

PlanAnyCandidate(scores) == Candidates(scores)
\* plan(): the entries max() may return (exact ties are broken at random).
PlanChoices(scores) ==
    {a \in Candidates(scores) : \A b \in ActionNames : scores[b] <= scores[a]}

(***************************************************************************)
(* execute().  How the world answers one dispatch:                         *)
(*   voice      core.voice is set and ready (for _say)                     *)
(*   present    core.modules holds the target module                       *)
(*   has_method the target has the method                                  *)
(*   kind       the method is sync, a coroutine function ("coro"), or sync *)
(*              returning an awaitable ("awaitable")                       *)
(*   raises     the call itself throws                                     *)
(*   sched      _schedule() returns True                                   *)
(***************************************************************************)
DispatchEnvs ==
    {e \in [voice : BOOLEAN, present : BOOLEAN, has_method : BOOLEAN,
            kind : {"sync", "coro", "awaitable"}, raises : BOOLEAN,
            sched : BOOLEAN] :
        /\ (~e.present => ~e.has_method)
        /\ (~e.has_method => e.kind = "sync" /\ ~e.raises)
        /\ (e.kind = "sync" \/ e.raises => e.sched)
        /\ (e.present => ~e.voice)}

\* The say lambdas: periodic_vitals_summary formats int(cpu_usage).
SayRaises(a, s) == a = "periodic_vitals_summary" /\ s.cpu = "bad"
\* The args lambda of adjust_mood_from_net: int(s["best_signal"]).
ArgsRaises(a, s) == Policy(a).args /\ ~s.best_signal

\* The path execute() takes.
ExecResult(a, s, e) ==
    LET cfg == Policy(a) IN
    IF cfg.module = None /\ cfg.say
    THEN IF SayRaises(a, s) THEN "say_failed" ELSE "voice_only"
    ELSE IF ~e.present THEN "absent"
    ELSE IF ~e.has_method THEN "no_method"
    ELSE IF ArgsRaises(a, s) THEN "raised"
    ELSE IF e.kind = "coro"
         THEN IF e.raises THEN "raised"
              ELSE IF e.sched THEN "awaitable" ELSE "unscheduled"
    ELSE IF e.raises THEN "raised"
    ELSE IF e.kind = "awaitable"
         THEN IF e.sched THEN "awaited" ELSE "unscheduled"
    ELSE "sync"

\* The results after which execute() stamps _last_run and journals.
Dispatched == {"voice_only", "awaitable", "awaited", "sync"}

\* execute(): every throwing step of either shape sits inside a try block whose
\* handler logs and returns, so no result leaves execute() as an exception.
ExecEscapes(res) == FALSE

StampLastRunBeforeCall(lr, a, res, t) ==
    IF res \in Dispatched \cup {"raised"} THEN [lr EXCEPT ![a] = t] ELSE lr
\* execute(): self._last_run[action_name] = time.time()
StampLastRun(lr, a, res, t) ==
    IF res \in Dispatched THEN [lr EXCEPT ![a] = t] ELSE lr

\* execute() -> _record_decision(action_name, snap, outcome)
RecordDecision(j, a, res) == IF res \in Dispatched THEN j + 1 ELSE j

SayEmitsNoGap(lc, e, t) == e.voice
\* _say(): the text goes out (the gap has passed and a voice is ready).
SayEmits(lc, e, t) == ~(t - lc < announce_gap) /\ e.voice

\* _say(): self._last_chat = now, unless the gap returned early.
StampLastChat(lc, res, t) ==
    IF res = "voice_only" /\ ~(t - lc < announce_gap) THEN t ELSE lc

NoCycle ==
    [trigger |-> None,
     snap |-> GetShared([defcon |-> 0, nets |-> 0, last_wifi |-> FALSE,
                         cpu |-> "low"], ""),
     scores |-> [a \in ActionNames |-> 0],
     before |-> [a \in ActionNames |-> 0],
     plan |-> None, result |-> None, emitted |-> FALSE, journaled |-> FALSE,
     escaped |-> FALSE, prev_delivery |-> 0, hour |-> 24]

\* time.localtime().tm_hour at the ticks of the model.
Hours == {2, 5, 6, 22}

\* _quiet_hours_block() reads the local hour only when the window is enabled
\* (24: not read).
LocalHours(q) == IF q.enabled THEN Hours ELSE {24}

QuietHoursBlockNoWrap(q, h) == q.enabled /\ q.start <= h /\ h < q.end
\* _quiet_hours_block()
QuietHoursBlock(q, h) ==
    IF ~q.enabled THEN FALSE
    ELSE IF q.start < q.end THEN q.start <= h /\ h < q.end
    ELSE ~(q.end <= h /\ h < q.start)

\* set_quiet_hours(enabled, start, end): the arguments of the model.
QuietArgs == {<<2, 6>>, <<22, 30>>, <<6, 6>>}

\* set_quiet_hours(enabled, start, end): both hours are stored modulo 24.
SetQuietHours ==
    /\ pc = "idle"
    /\ \E enabled \in BOOLEAN, a \in QuietArgs :
        quiet_hours' = [enabled |-> enabled, start |-> a[1] % 24,
                        end |-> a[2] % 24]
    /\ UNCHANGED <<now, ready, last_run, last_chat, journal, cycles, pc, delivered,
                   ev>>
    /\ UNCHANGED <<coreVars, ctlVars, moodVars>>

\* tick(), first half: the guard, the snapshot, and plan()'s call of evaluate().
\* `trigger` names who called tick(); t is the time the cycle reads.
\* `boards` and `moods` are what the blackboard and the memory cortex may
\* hold when the cycle reads them, `cap` the number of cycles of a run.
TickCycle(trigger, t, boards, moods) ==
    /\ pc = "idle"
    /\ IF ~ready
       THEN /\ pc' = "skipped"
            /\ ev' = [NoCycle EXCEPT !.trigger = trigger, !.before = last_run]
       ELSE \E h \in LocalHours(quiet_hours) :
            IF QuietHoursBlock(quiet_hours, h)
            THEN /\ pc' = "skipped"
                 /\ ev' = [NoCycle EXCEPT !.trigger = trigger,
                                          !.before = last_run, !.hour = h]
            ELSE \E bb \in boards, m \in moods :
                 LET s == GetShared(bb, m) IN
                 /\ pc' = "evaluated"
                 /\ ev' = [NoCycle EXCEPT !.trigger = trigger, !.snap = s,
                                          !.scores = Evaluate(s, last_run, t),
                                          !.before = last_run, !.hour = h]
    /\ UNCHANGED <<last_run, last_chat, journal, delivered>>
    /\ UNCHANGED <<coreVars, ctlVars, moodVars, quiet_hours>>

\* tick() as the runs of the model count it, up to `cap` cycles.
TickEvaluateWith(trigger, t, boards, moods, cap) ==
    /\ cycles < cap
    /\ cycles' = cycles + 1
    /\ TickCycle(trigger, t, boards, moods)

\* The dispatches that went through: the direct response was built and handed
\* to _say, or the target method ran or was scheduled.
Delivery == {"voice_only", "awaitable", "awaited", "sync"}

\* tick(), second half: plan() picks the best entry and execute() runs it.
TickExecute ==
    /\ pc = "evaluated"
    /\ pc' = "executed"
    /\ IF Candidates(ev.scores) = {}
       THEN UNCHANGED <<last_run, last_chat, journal, delivered, ev>>
       ELSE \E a \in PlanChoices(ev.scores), e \in DispatchEnvs :
            LET res == ExecResult(a, ev.snap, e) IN
            /\ (Policy(a).module = None => ~e.present)
            /\ (Policy(a).module # None => ~e.voice)
            /\ last_run' = StampLastRun(last_run, a, res, now)
            /\ last_chat' = StampLastChat(last_chat, res, now)
            /\ journal' = RecordDecision(journal, a, res)
            /\ delivered' = IF res \in Delivery
                            THEN [delivered EXCEPT ![a] = now] ELSE delivered
            /\ ev' = [ev EXCEPT !.plan = a, !.result = res,
                         !.escaped = ExecEscapes(res),
                         !.prev_delivery = delivered[a],
                         !.emitted = res = "voice_only"
                                     /\ SayEmits(last_chat, e, now),
                         !.journaled = journal' # journal]
    /\ UNCHANGED <<now, ready, cycles>>
    /\ UNCHANGED <<coreVars, ctlVars, moodVars, quiet_hours>>

\* tick() returns to its caller.
TickReturn ==
    /\ pc \in {"executed", "skipped"}
    /\ pc' = "idle"
    /\ ev' = NoCycle
    /\ UNCHANGED <<now, ready, last_run, last_chat, journal, cycles, delivered>>
    /\ UNCHANGED <<coreVars, ctlVars, moodVars, quiet_hours>>

\* init(): ready, and the timer loop is started.
InitEngine ==
    /\ pc = "idle"
    /\ ~ready
    /\ ready' = TRUE
    /\ UNCHANGED <<now, last_run, last_chat, journal, cycles, pc, delivered, ev>>
    /\ UNCHANGED <<coreVars, ctlVars, moodVars, quiet_hours>>

\* How long a sleep may last, in the model.
Deltas == {100, 201}

\* _loop(): sleep tick_seconds (or longer), then tick.
LoopTickWith(boards, moods, sleeps, cap) ==
    /\ ready
    /\ \E d \in sleeps :
        /\ d >= tick_seconds
        /\ now + d <= MaxTime
        /\ now' = now + d
        /\ TickEvaluateWith("loop", now + d, boards, moods, cap)
    /\ UNCHANGED ready

LoopTick == LoopTickWith(Blackboards, MemoryMoods, Deltas, MaxCycles)

\* pulse(): called by the orchestrator's pulse; ticks on a round second.
PulseTickWith(boards, moods, cap) ==
    /\ now % tick_seconds = 0
    /\ TickEvaluateWith("pulse", now, boards, moods, cap)
    /\ UNCHANGED <<now, ready>>

PulseTick == PulseTickWith(Blackboards, MemoryMoods, MaxCycles)

\* Time passes between the calls.
Advance ==
    /\ pc = "idle"
    /\ \E d \in Deltas :
        /\ now + d <= MaxTime
        /\ now' = now + d
    /\ UNCHANGED <<ready, last_run, last_chat, journal, cycles, pc, delivered, ev>>
    /\ UNCHANGED <<coreVars, ctlVars, moodVars, quiet_hours>>

(***************************************************************************)
(* The orchestrator, DEVILCore.                                            *)
(*                                                                         *)
(* The module files a scan may find: two internal modules and one          *)
(* prosthetic.  The Memory Cortex the host hands in is bound by the        *)
(* constructor, which marks its file as a ghost for the scan to pass over. *)
(***************************************************************************)
MemoryCortex == "Memory Cortex"
Catalogue == {"Mood Engine", "LlmModel", "Plugin"}
\* prosthetics/lokisfury: a second prosthetic, with a synchronous pulse.
Lokisfury == "Lokisfury"
Names == Catalogue \cup {MemoryCortex, Lokisfury}

Category(m) == IF m \in {"Plugin", Lokisfury} THEN "prosthetic" ELSE "internal"

\* meta_data["pulse"] of each module, and which of the methods are coroutine
\* functions.  The pre-bound Memory Cortex lists none.
PulseList(m) ==
    CASE m = "Mood Engine" -> <<"pulse">>
      [] m = "LlmModel"    -> <<"pulse">>
      [] m = "Plugin"      -> <<"pulse", "flush">>
      [] m = Lokisfury     -> <<"pulse">>
      [] OTHER             -> <<>>

IsCoroutine(m, meth) == m = "Plugin" /\ meth = "flush"

\* Only the Mood Engine carries a trace attribute of its own.
HasTrace(m) == m = "Mood Engine"

MaxPulses == 3

NoAttach == [name |-> None, step |-> None]
NoPulse == [log |-> <<>>, raised |-> {}, escaped |-> FALSE]

InSeq(seq, x) == \E i \in 1..Len(seq) : seq[i] = x
IndexOf(seq, x) == CHOOSE i \in 1..Len(seq) : seq[i] = x

\* Nothing runs between the statements of a synchronous call: pulse() and
\* _dispatch_command() up to its first await.
CoreIdle == cpc = "idle" /\ ctl.conn = 0

(***************************************************************************)
(* scan_and_attach() and attach().  attach() sleeps between its steps, so  *)
(* control commands run in between.                                        *)
(***************************************************************************)
\* scan_and_attach(): module_name, the file's name without its extension.
ModuleKey(m) ==
    CASE m = MemoryCortex  -> "memory_cortex"
      [] m = "Mood Engine" -> "mood_engine"
      [] m = "LlmModel"    -> "llm_model"
      [] m = Lokisfury     -> "lokisfury"
      [] OTHER             -> "plugin"

GhostsNone(preloaded) == {}
\* DEVILCore.__init__: self.ghost_modules.add("memory_cortex") when the host
\* handed a memory cortex in.
Ghosts(preloaded) == IF preloaded THEN {"memory_cortex"} ELSE {}

\* scan_and_attach(): the next file; the internal directory is scanned first.
ScanNext(m) ==
    /\ boot = "scanning"
    /\ attaching = NoAttach
    /\ m \in scan_left
    /\ ModuleKey(m) \notin ghost_modules
    /\ Category(m) = "prosthetic"
          => \A x \in scan_left : Category(x) = "prosthetic"

ScanAborts(left) == {}
\* scan_and_attach(): `except Exception` logs the failure and the loop goes on
\* with the files that are left.
ScanContinues(left) == left

\* scan_and_attach(): `if module_name in self.ghost_modules: continue`.
ScanGhost ==
    /\ CoreIdle
    /\ boot = "scanning"
    /\ attaching = NoAttach
    /\ \E m \in scan_left :
        /\ ModuleKey(m) \in ghost_modules
        /\ scan_left' = scan_left \ {m}
    /\ UNCHANGED <<boot, attaching, modules, mod_debug, mod_trace, mod_ready,
                   debug, trace, tick_count, data_store_tick, attached_internal,
                   attached_prosthetic, ready_modules, ready_writes, pulses, cpc,
                   pulse, toggles, scanned>>
    /\ UNCHANGED <<schedVars, ctlVars, moodVars, ghost_modules, tasks>>

\* scan_and_attach(): the import fails, or the file lacks meta_data or its class.
ScanSkip ==
    /\ CoreIdle
    /\ \E m \in Names :
        /\ ScanNext(m)
        /\ scan_left' = ScanContinues(scan_left \ {m})
        /\ scanned' = scanned \cup {m}
    /\ UNCHANGED <<boot, attaching, modules, mod_debug, mod_trace, mod_ready,
                   debug, trace, tick_count, data_store_tick, attached_internal,
                   attached_prosthetic, ready_modules, ready_writes, pulses, cpc,
                   pulse, toggles>>
    /\ UNCHANGED <<schedVars, ctlVars, moodVars, ghost_modules, tasks>>

PropagateOverwrites(own, flag) == flag
\* attach(): setattr(module, "debug", current_debug or self.debug), and the
\* same for trace.
Propagate(own, flag) == own \/ flag

\* attach(), up to the handshake: the registry entry and the flags.
AttachRegister ==
    /\ CoreIdle
    /\ \E m \in Names :
        /\ ScanNext(m)
        /\ scan_left' = scan_left \ {m}
        /\ scanned' = scanned \cup {m}
        /\ attaching' = [name |-> m, step |-> "registered"]
        /\ modules' = IF InSeq(modules, m) THEN modules ELSE Append(modules, m)
        /\ mod_debug' = IF m \in DOMAIN mod_debug
                        THEN [mod_debug EXCEPT ![m] = Propagate(mod_debug[m], debug)]
                        ELSE mod_debug
        /\ mod_trace' = IF HasTrace(m)
                        THEN [mod_trace EXCEPT ![m] = Propagate(mod_trace[m], trace)]
                        ELSE mod_trace
    /\ UNCHANGED <<boot, mod_ready, debug, trace, tick_count, data_store_tick,
                   attached_internal, attached_prosthetic, ready_modules,
                   ready_writes, pulses, cpc, pulse, toggles>>
    /\ UNCHANGED <<schedVars, ctlVars, moodVars, ghost_modules, tasks>>

\* attach(): init() and initialize().  A hook that throws ends attach(); the
\* scan logs it and goes on, and the module stays in the registry.
AttachHooks ==
    /\ CoreIdle
    /\ attaching.step = "registered"
    /\ \/ \E r \in BOOLEAN :
            /\ mod_ready' = [mod_ready EXCEPT ![attaching.name] = r]
            /\ attaching' = [attaching EXCEPT !.step = "hooked"]
            /\ UNCHANGED scan_left
       \/ /\ attaching' = NoAttach
          /\ scan_left' = ScanContinues(scan_left)
          /\ UNCHANGED mod_ready
    /\ UNCHANGED <<boot, modules, mod_debug, mod_trace, debug, trace,
                   tick_count, data_store_tick, attached_internal,
                   attached_prosthetic, ready_modules, ready_writes, pulses, cpc,
                   pulse, toggles, scanned>>
    /\ UNCHANGED <<schedVars, ctlVars, moodVars, ghost_modules, tasks>>

IsReadyBeforeHooks(m, mr) == FALSE
\* attach(): is_ready = getattr(module, "ready", False)
IsReady(m, mr) == mr[m]

ListedAtOnce(step) == step \in {"registered", "hooked"}
\* attach(): the statements after `await module.initialize()` run only when
\* neither hook raised.
ListedAfterHooks(step) == step = "hooked"

\* attach(): the category list and the readiness entry.
AttachFinish ==
    /\ CoreIdle
    /\ ListedAfterHooks(attaching.step)
    /\ LET m == attaching.name IN
        /\ IF Category(m) = "internal"
           THEN /\ attached_internal' = Append(attached_internal, m)
                /\ UNCHANGED attached_prosthetic
           ELSE /\ attached_prosthetic' = Append(attached_prosthetic, m)
                /\ UNCHANGED attached_internal
        /\ ready_modules' = (m :> IsReady(m, mod_ready)) @@ ready_modules
        /\ ready_writes' = [ready_writes EXCEPT ![m] = @ + 1]
    /\ attaching' = NoAttach
    /\ UNCHANGED <<boot, scan_left, modules, mod_debug, mod_trace, mod_ready,
                   debug, trace, tick_count, data_store_tick, pulses, cpc, pulse,
                   toggles, scanned>>
    /\ UNCHANGED <<schedVars, ctlVars, moodVars, ghost_modules, tasks>>

\* main(): both scans are over; run_forever() starts, and with it the control
\* socket when the constructor could not start it.
RunForever ==
    /\ CoreIdle
    /\ boot = "scanning"
    /\ scan_left = {}
    /\ attaching = NoAttach
    /\ boot' = "running"
    /\ socket_task' = IF socket_task = "none" THEN "scheduled" ELSE socket_task
    /\ UNCHANGED <<scan_left, attaching, modules, mod_debug, mod_trace, mod_ready,
                   debug, trace, tick_count, data_store_tick, attached_internal,
                   attached_prosthetic, ready_modules, ready_writes, pulses, cpc,
                   pulse, toggles, scanned>>
    /\ UNCHANGED <<schedVars, conns, ctl, moodVars, ghost_modules, tasks>>

\* run_forever(): `except asyncio.CancelledError` around the pulse loop; the
\* task is cancelled while it sleeps, logs and returns.  The tasks it created
\* are left alone.
Cancel ==
    /\ CoreIdle
    /\ boot = "running"
    /\ boot' = "cancelled"
    /\ UNCHANGED <<scan_left, attaching, modules, mod_debug, mod_trace, mod_ready,
                   debug, trace, tick_count, data_store_tick, attached_internal,
                   attached_prosthetic, ready_modules, ready_writes, pulses, cpc,
                   pulse, toggles, scanned>>
    /\ UNCHANGED <<schedVars, ctlVars, moodVars, ghost_modules, tasks>>

(***************************************************************************)
(* pulse().  It is synchronous: nothing else runs between its first and    *)
(* its last statement.  `raising` names the synchronous pulse methods that *)
(* throw in this pulse; a coroutine method is only scheduled.              *)
(***************************************************************************)
InPulseLoopOrLeft(b) == b \in {"running", "cancelled"}
\* run_forever(): `while True: self.pulse(); await asyncio.sleep(5.0)` runs
\* until the task is cancelled.
InPulseLoop(b) == b = "running"

PulseCalls(mods) ==
    UNION {{<<mods[i], PulseList(mods[i])[k]>> :
                k \in 1..Len(PulseList(mods[i]))} : i \in 1..Len(mods)}

SyncCalls(mods) == {c \in PulseCalls(mods) : ~IsCoroutine(c[1], c[2])}

\* pulse(): the inner loop over meta_data["pulse"]; a throw leaves the loop.
RECURSIVE RunMethods(_, _, _)
RunMethods(m, meths, raising) ==
    IF meths = <<>> THEN [log |-> <<>>, raised |-> FALSE]
    ELSE LET meth == Head(meths)
             call == [mod |-> m, method |-> meth,
                      how |-> IF IsCoroutine(m, meth) THEN "scheduled"
                                                      ELSE "called"]
         IN  IF <<m, meth>> \in raising
             THEN [log |-> <<call>>, raised |-> TRUE]
             ELSE LET rest == RunMethods(m, Tail(meths), raising)
                  IN  [log |-> <<call>> \o rest.log, raised |-> rest.raised]

RECURSIVE PulseModulesAbort(_, _)
PulseModulesAbort(mods, raising) ==
    IF mods = <<>> THEN NoPulse
    ELSE LET r == RunMethods(Head(mods), PulseList(Head(mods)), raising)
         IN  IF r.raised
             THEN [log |-> r.log, raised |-> {Head(mods)}, escaped |-> TRUE]
             ELSE LET rest == PulseModulesAbort(Tail(mods), raising)
                  IN  [rest EXCEPT !.log = r.log \o rest.log]

RECURSIVE PulseModulesBackwards(_, _)
PulseModulesBackwards(mods, raising) ==
    IF mods = <<>> THEN NoPulse
    ELSE LET r == RunMethods(Head(mods), PulseList(Head(mods)), raising)
             rest == PulseModulesBackwards(Tail(mods), raising)
         IN  [log |-> rest.log \o r.log,
              raised |-> (IF r.raised THEN {Head(mods)} ELSE {}) \cup rest.raised,
              escaped |-> rest.escaped]

\* pulse(): the loop over list(self.modules.values()), one try block a module.
\* The handler logs and the loop goes on, so nothing leaves pulse().
RECURSIVE PulseModules(_, _)
PulseModules(mods, raising) ==
    IF mods = <<>> THEN NoPulse
    ELSE LET r == RunMethods(Head(mods), PulseList(Head(mods)), raising)
             rest == PulseModules(Tail(mods), raising)
         IN  [log |-> r.log \o rest.log,
              raised |-> (IF r.raised THEN {Head(mods)} ELSE {}) \cup rest.raised,
              escaped |-> rest.escaped]

OutstandingAwaited(n, log) == n
\* pulse(): asyncio.create_task(method()) for a coroutine function; the task
\* has not run a statement when pulse() returns.
Outstanding(n, log) ==
    n + Cardinality({j \in 1..Len(log) : log[j].how = "scheduled"})

BumpTickStale(tc) == [tick_count |-> tc + 1, tick |-> tc]
\* pulse(): self.tick_count += 1; self.data_store["tick"] = self.tick_count
BumpTick(tc) == [tick_count |-> tc + 1, tick |-> tc + 1]

Pulse ==
    /\ CoreIdle
    /\ InPulseLoop(boot)
    /\ pulses < MaxPulses
    /\ pulses' = pulses + 1
    /\ tick_count' = BumpTick(tick_count).tick_count
    /\ data_store_tick' = BumpTick(tick_count).tick
    /\ \E raising \in SUBSET SyncCalls(modules) :
          pulse' = PulseModules(modules, raising)
    /\ tasks' = Outstanding(tasks, pulse'.log)
    /\ cpc' = "pulsed"
    /\ UNCHANGED <<boot, scan_left, attaching, modules, mod_debug, mod_trace,
                   mod_ready, debug, trace, attached_internal,
                   attached_prosthetic, ready_modules, ready_writes, toggles, scanned>>
    /\ UNCHANGED <<schedVars, ctlVars, moodVars, ghost_modules>>

\* The event loop runs a task pulse() created to its end, while run_forever()
\* sleeps or at any later time.
TaskDone ==
    /\ CoreIdle
    /\ tasks > 0
    /\ tasks' = tasks - 1
    /\ UNCHANGED <<boot, scan_left, attaching, modules, mod_debug, mod_trace,
                   mod_ready, debug, trace, tick_count, data_store_tick,
                   attached_internal, attached_prosthetic, ready_modules,
                   ready_writes, pulses, cpc, pulse, toggles, scanned>>
    /\ UNCHANGED <<schedVars, ctlVars, moodVars, ghost_modules>>

\* pulse() returns to run_forever(), which sleeps.
PulseReturn ==
    /\ cpc = "pulsed"
    /\ cpc' = "idle"
    /\ pulse' = NoPulse
    /\ UNCHANGED <<boot, scan_left, attaching, modules, mod_debug, mod_trace,
                   mod_ready, debug, trace, tick_count, data_store_tick,
                   attached_internal, attached_prosthetic, ready_modules,
                   ready_writes, pulses, toggles, scanned>>
    /\ UNCHANGED <<schedVars, ctlVars, moodVars, ghost_modules, tasks>>

(***************************************************************************)
(* set_debug / set_trace and the control commands `debug` and `trace`.     *)
(***************************************************************************)
SetDebugSticky(d, on) == on \/ d
\* set_debug(): self.debug = bool(on)
SetDebug(d, on) == on

\* set_debug(): the loop over the registered modules.
SetModuleDebug(md, mods, on) ==
    [m \in DOMAIN md |->
        IF InSeq(mods, m)
        THEN LET v == on \/ md[m] IN IF ~on THEN FALSE ELSE v
        ELSE md[m]]

\* set_trace(): the loop over the registered modules that have the attribute.
SetModuleTrace(mt, mods, on) ==
    [m \in DOMAIN mt |-> IF InSeq(mods, m) /\ HasTrace(m) THEN on ELSE mt[m]]

Switches == {"", "on", "off", "toggle", "bogus"}

\* The value a switch asks for.
Wanted(sw, cur) == IF sw = "toggle" THEN ~cur ELSE sw = "on"

LastTwo(seq) == IF Len(seq) > 2 THEN Tail(seq) ELSE seq

\* _dispatch_command("debug", [sw]); the reply carries self.debug.
DebugCommand ==
    /\ CoreIdle
    /\ \E sw \in Switches :
        LET sets == sw \in {"on", "off", "toggle"}
            on == Wanted(sw, debug)
        IN  /\ debug' = IF sets THEN SetDebug(debug, on) ELSE debug
            /\ mod_debug' = IF sets THEN SetModuleDebug(mod_debug, modules, on)
                                    ELSE mod_debug
            /\ toggles' =
                 IF sw = "toggle"
                 THEN LastTwo(Append(toggles,
                                     [before |-> debug, reply |-> debug']))
                 ELSE IF debug' # debug THEN <<>> ELSE toggles
    /\ UNCHANGED <<boot, scan_left, attaching, modules, mod_trace, mod_ready,
                   trace, tick_count, data_store_tick, attached_internal,
                   attached_prosthetic, ready_modules, ready_writes, pulses, cpc,
                   pulse, scanned>>
    /\ UNCHANGED <<schedVars, ctlVars, moodVars, ghost_modules, tasks>>

\* _dispatch_command("trace", [sw])
TraceCommand ==
    /\ CoreIdle
    /\ \E sw \in Switches :
        LET sets == sw \in {"on", "off", "toggle"}
            on == Wanted(sw, trace)
        IN  /\ trace' = IF sets THEN on ELSE trace
            /\ mod_trace' = IF sets THEN SetModuleTrace(mod_trace, modules, on)
                                    ELSE mod_trace
    /\ UNCHANGED <<boot, scan_left, attaching, modules, mod_debug, mod_ready,
                   debug, tick_count, data_store_tick, attached_internal,
                   attached_prosthetic, ready_modules, ready_writes, pulses, cpc,
                   pulse, toggles, scanned>>
    /\ UNCHANGED <<schedVars, ctlVars, moodVars, ghost_modules, tasks>>

\* background_brain_cycle(): the language model answers enable_debug or
\* disable_debug.  The task runs once run_forever() has started it.
BrainDebug ==
    /\ CoreIdle
    /\ boot # "scanning"
    /\ InSeq(modules, "LlmModel") /\ mod_ready["LlmModel"]
    /\ \E on \in BOOLEAN :
        /\ debug' = SetDebug(debug, on)
        /\ mod_debug' = SetModuleDebug(mod_debug, modules, on)
        /\ toggles' = IF debug' # debug THEN <<>> ELSE toggles
    /\ UNCHANGED <<boot, scan_left, attaching, modules, mod_trace, mod_ready,
                   trace, tick_count, data_store_tick, attached_internal,
                   attached_prosthetic, ready_modules, ready_writes, pulses, cpc,
                   pulse, scanned>>
    /\ UNCHANGED <<schedVars, ctlVars, moodVars, ghost_modules, tasks>>

(***************************************************************************)
(* The control socket: _start_control_socket(), _handle_client() and       *)
(* _dispatch_command().  Every accepted connection runs _handle_client as  *)
(* a task of its own; the tasks interleave at their awaits.                *)
(***************************************************************************)
MaxConns == 2
Conns == 1..MaxConns

NoDispatch == [conn |-> 0]
NoCall == [mod |-> None, method |-> None]
NoLine == [kind |-> None]
FreeConn == [st |-> "free", reads |-> 0, writes |-> 0, served |-> 0,
             line |-> NoLine, invoked |-> NoCall]

\* The arguments a client may put on a line.  A JSON text is written inside
\* single quotes or bare; `members` lists the name/value pairs of an object.
Word(text) == [shape |-> "word", text |-> text, quoted |-> FALSE, members |-> <<>>]
Object(members, quoted) ==
    [shape |-> "object", text |-> "", quoted |-> quoted, members |-> members]
Array(quoted) == [shape |-> "array", text |-> "[1]", quoted |-> quoted, members |-> <<>>]

Words(cmd, args) == [kind |-> "words", cmd |-> cmd, args |-> args]

OneMember == << <<"a", "1">> >>
TwoMembers == << <<"a", "1">>, <<"b", "2">> >>

CallLines ==
    { Words("call", <<>>),
      Words("call", <<Word("Plugin")>>),
      Words("call", <<Word("Ghost"), Word("echo_back")>>),
      Words("call", <<Word("Plugin"), Word("nope")>>),
      Words("call", <<Word("Plugin"), Word("echo_back")>>),
      Words("call", <<Word("Plugin"), Word("echo_back"), Object(<<>>, FALSE)>>),
      Words("call", <<Word("Plugin"), Word("echo_back"), Object(OneMember, TRUE)>>),
      Words("call", <<Word("plugin"), Word("echo-back"), Object(TwoMembers, TRUE)>>),
      Words("CALL", <<Word("Plugin"), Word("ECHO_BACK"), Object(OneMember, TRUE)>>),
      Words("call", <<Word("Plugin"), Word("repeat"), Object(OneMember, TRUE)>>),
      Words("call", <<Word("Plugin"), Word("echo_back"), Object(OneMember, FALSE)>>),
      Words("call", <<Word("Plugin"), Word("echo_back"), Array(TRUE)>>),
      Words("call", <<Word("Plugin"), Word("echo_back"), Word("hello"), Word("there")>>),
      Words("call", <<Word("Plugin"), Word("crash"), Object(OneMember, TRUE)>>),
      Words("call", <<Word("Plugin"), Word("opaque"), Object(OneMember, TRUE)>>),
      Words("call", <<Word("Plugin"), Word("flush")>>),
      Words("call", <<Word("Plugin"), Word("flush"), Object(OneMember, TRUE)>>),
      Words("call", <<Word("Plugin"), Word("pulse"), Object(OneMember, TRUE)>>) }

Lines ==
    { [kind |-> "blank"], [kind |-> "unbalanced"],
      Words("bogus", <<>>), Words("ping", <<>>),
      Words("status", <<>>), Words("STATUS", <<Word("now")>>),
      Words("mods", <<>>), Words("snapshot", <<>>),
      Words("speak", <<Word("hello")>>),
      Words("phrase", <<>>), Words("phrase", <<Word("boot")>>),
      Words("help", <<>>), Words("help", <<Word("Ghost")>>),
      Words("help", <<Word("plugin")>>),
      Words("help", <<Word("Plugin"), Word("echo-back")>>),
      Words("debug", <<>>), Words("debug", <<Word("toggle")>>),
      Words("debug", <<Word("on")>>), Words("debug", <<Word("bogus")>>),
      Words("trace", <<>>), Words("trace", <<Word("toggle")>>) }
    \cup CallLines

\* str.lower() and str.title() on the words above, str.replace("-", "_").
Lower(s) ==
    CASE s = "STATUS"    -> "status"
      [] s = "CALL"      -> "call"
      [] s = "ECHO_BACK" -> "echo_back"
      [] s = "Plugin"    -> "plugin"
      [] s = "Ghost"     -> "ghost"
      [] OTHER           -> s

Title(s) ==
    CASE s = "plugin"      -> "Plugin"
      [] s = "mood engine" -> "Mood Engine"
      [] s = "llmmodel"    -> "Llmmodel"
      [] s = "ECHO_BACK"   -> "Echo_Back"
      [] OTHER             -> s

Underscored(s) == IF s = "echo-back" THEN "echo_back" ELSE s

\* shlex.split(): quotes group and are removed.  A bare JSON text loses its
\* double quotes, and what is left of an object with members is no JSON.
ShlexToken(arg) ==
    IF arg.shape = "object" /\ ~arg.quoted /\ arg.members # <<>>
    THEN Word("{a:1}")
    ELSE arg

ShlexSplit(line) == [i \in 1..Len(line.args) |-> ShlexToken(line.args[i])]

JsonDictFirstMember(members) ==
    [k \in {members[i][1] : i \in 1..Len(members) \cap {1}} |-> members[1][2]]
\* json.loads(): a dict keeps the last value of each name.
JsonDict(members) ==
    [k \in {members[i][1] : i \in 1..Len(members)} |->
        LET last == CHOOSE i \in 1..Len(members) :
                        /\ members[i][1] = k
                        /\ \A j \in 1..Len(members) : members[j][1] = k => j <= i
        IN  members[last][2]]

EmptyDict == [k \in {} |-> ""]

\* call: the fallback when the third argument is no JSON.
RawKwargs(tail) ==
    [raw |-> [i \in 1..Len(tail) |-> tail[i].text], args |-> Len(tail)]

\* get_module(): the exact name, then the title-cased one.
GetModule(mods, name) ==
    IF InSeq(mods, name) THEN name
    ELSE IF InSeq(mods, Title(name)) THEN Title(name)
    ELSE None

ListRegistry == [internal |-> modules, prosthetic |-> <<>>]
\* list_modules()
ListModules == [internal |-> attached_internal, prosthetic |-> attached_prosthetic]

\* The callables of each module the commands above can name, and its aliases.
MethodsOf(m) ==
    CASE m = "Plugin" -> {"echo_back", "crash", "opaque", "flush", "pulse"}
      [] OTHER        -> {"pulse"}

Aliases(m) == IF m = "Plugin" THEN [repeat |-> "echo_back"] ELSE EmptyDict

\* call: getattr, the case-insensitive sweep over dir(mod), the alias map.
ResolveMethod(m, raw) ==
    LET norm == Underscored(raw)
        sweep == {f \in MethodsOf(m) : Lower(f) = Lower(norm)}
    IN  IF norm \in MethodsOf(m) THEN norm
        ELSE IF sweep # {} THEN CHOOSE f \in sweep : TRUE
        ELSE IF raw \in DOMAIN Aliases(m) /\ Aliases(m)[raw] \in MethodsOf(m)
             THEN Aliases(m)[raw]
        ELSE IF norm \in DOMAIN Aliases(m) /\ Aliases(m)[norm] \in MethodsOf(m)
             THEN Aliases(m)[norm]
        ELSE None

\* func(**kwargs): only these methods take keyword arguments.
TakesKwargs(f) == f \in {"echo_back", "crash", "opaque"}

Ok(payload) == [ok |-> TRUE, payload |-> payload]
Fail(msg) == [ok |-> FALSE, error |-> msg]

\* What _dispatch_command leaves behind: its reply or the exception it raised,
\* the flags, the call it made and whether it is awaiting that call.
Returns(reply) ==
    [reply |-> reply, raised |-> FALSE, debug |-> debug, mod_debug |-> mod_debug,
     trace |-> trace, mod_trace |-> mod_trace, invoked |-> NoCall,
     awaiting |-> FALSE]

Raises(msg) == [Returns(Fail(msg)) EXCEPT !.raised = TRUE]

\* The value a method returns and what json.dumps makes of it.
CallResult(f, kwargs) ==
    CASE f = "echo_back" -> kwargs
      [] f = "opaque"    -> [str |-> "<object>"]
      [] OTHER           -> [null |-> TRUE]

CallCommand(args) ==
    IF Len(args) < 2 THEN Returns(Fail("Usage: call"))
    ELSE
    LET mod == GetModule(modules, args[1].text)
        third == args[3]
        tail == SubSeq(args, 3, Len(args))
        parsed == Len(args) >= 3 /\ third.shape # "word"
        kwargs == IF Len(args) < 3 THEN EmptyDict
                  ELSE IF parsed THEN JsonDict(third.members)
                  ELSE RawKwargs(tail)
        f == ResolveMethod(mod, args[2].text)
        call == [mod |-> mod, method |-> f, kwargs |-> kwargs]
    IN  IF mod = None THEN Returns(Fail("Module not found"))
        ELSE IF parsed /\ third.shape # "object"
             THEN Returns(Fail("json_args must be an object"))
        ELSE IF f = None THEN Returns(Fail("Method not found"))
        ELSE IF ~TakesKwargs(f) /\ kwargs # EmptyDict
             THEN [Raises("TypeError") EXCEPT !.invoked = call]
        ELSE IF f = "crash"
             THEN [Raises("crash") EXCEPT !.invoked = call]
        ELSE IF IsCoroutine(mod, f)
             THEN [Returns(Ok([result |-> CallResult(f, kwargs)]))
                      EXCEPT !.invoked = call, !.awaiting = TRUE]
        ELSE [Returns(Ok([result |-> CallResult(f, kwargs)]))
                      EXCEPT !.invoked = call]

HelpCommand(args) ==
    IF args = <<>> THEN Returns(Ok([text |-> "core help"]))
    ELSE IF GetModule(modules, args[1].text) = None
         THEN Returns(Fail("Module not found"))
    ELSE IF Len(args) = 1 THEN Returns(Ok([text |-> "module help"]))
    ELSE Returns(Ok([text |-> "action help"]))

SwitchCommand(args, cur) ==
    IF args = <<>> THEN cur
    ELSE LET sw == Lower(args[1].text)
         IN  IF sw \in {"on", "off", "toggle"} THEN SetDebug(cur, Wanted(sw, cur))
             ELSE cur

\* _dispatch_command(cmd, args)
DispatchCommand(cmd, args) ==
    CASE cmd \in {"ping", "hi"} -> Returns(Ok([pong |-> TRUE]))
      [] cmd = "status" ->
            Returns(Ok([status |-> "Initializing", tick |-> data_store_tick,
                        modules |-> ListModules, debug |-> debug,
                        trace |-> trace]))
      [] cmd = "debug" ->
            LET new == SwitchCommand(args, debug)
                sets == args # <<>> /\ Lower(args[1].text) \in {"on", "off", "toggle"}
            IN  [Returns(Ok([debug |-> new])) EXCEPT
                    !.debug = new,
                    !.mod_debug = IF sets THEN SetModuleDebug(mod_debug, modules, new)
                                  ELSE mod_debug]
      [] cmd = "trace" ->
            LET sets == args # <<>> /\ Lower(args[1].text) \in {"on", "off", "toggle"}
                new == IF sets THEN Wanted(Lower(args[1].text), trace) ELSE trace
            IN  [Returns(Ok([trace |-> new])) EXCEPT
                    !.trace = new,
                    !.mod_trace = IF sets THEN SetModuleTrace(mod_trace, modules, new)
                                  ELSE mod_trace]
      [] cmd = "snapshot" ->
            Returns(Ok([spoken |-> TRUE,
                        text |-> [internal |-> Len(attached_internal),
                                  prosthetic |-> Len(attached_prosthetic),
                                  tick |-> data_store_tick]]))
      [] cmd = "speak" -> Returns(Fail("VoiceBox not ready"))
      [] cmd = "phrase" ->
            IF args = <<>> THEN Returns(Fail("Usage: phrase"))
            ELSE Raises("VoiceBox not ready")
      [] cmd \in {"mods", "modules"} -> Returns(Ok(ListModules))
      [] cmd = "help" -> HelpCommand(args)
      [] cmd = "call" -> CallCommand(args)
      [] OTHER -> Returns(Fail("Unknown command"))

Uncaught(out) == out
\* _handle_client(): `except Exception as e: result = {"ok": False, "error": str(e)}`
Caught(out) ==
    IF out.raised THEN [out EXCEPT !.raised = FALSE, !.awaiting = FALSE] ELSE out

\* _handle_client(), from the line to the reply: the empty line, then
\* shlex.split, which raises on an unbalanced quote, and the dispatcher.
HandleLine(line) ==
    IF line.kind = "blank" THEN Returns(Fail("empty command"))
    ELSE Caught(IF line.kind = "unbalanced" THEN Raises("No closing quotation")
                ELSE DispatchCommand(Lower(line.cmd), ShlexSplit(line)))

TaskExceptionEscapes(b) == "crashed"
\* An exception that ends a task stays in the task object: nothing awaits
\* self._socket_task, and run_forever() goes on.
TaskException(b) == b

\* _start_control_socket(): the task runs up to asyncio.start_unix_server,
\* which binds the socket or raises.
StartControlSocket ==
    /\ CoreIdle
    /\ socket_task = "scheduled"
    /\ \/ /\ socket_task' = "serving"
          /\ UNCHANGED boot
       \/ /\ socket_task' = "failed"
          /\ boot' = TaskException(boot)
    /\ UNCHANGED <<scan_left, attaching, modules, mod_debug, mod_trace, mod_ready,
                   debug, trace, tick_count, data_store_tick, attached_internal,
                   attached_prosthetic, ready_modules, ready_writes, pulses, cpc,
                   pulse, toggles, scanned, ghost_modules, tasks>>
    /\ UNCHANGED <<conns, ctl, schedVars, moodVars>>

\* The server of the control socket is listening.
serving == socket_task = "serving"

\* asyncio.start_unix_server: a client connects and _handle_client starts.
\* The connections are numbered in the order they are accepted.
Accept ==
    /\ CoreIdle
    /\ serving
    /\ \E c \in Conns :
        /\ conns[c].st = "free"
        /\ \A b \in Conns : b < c => conns[b].st # "free"
        /\ conns' = [conns EXCEPT ![c].st = "accepted"]
    /\ UNCHANGED <<ctl, socket_task, coreVars, schedVars, moodVars>>

\* _handle_client(): readline() returns nothing, the peer is gone.
PeerGone ==
    /\ CoreIdle
    /\ \E c \in Conns :
        /\ conns[c].st = "accepted"
        /\ conns' = [conns EXCEPT ![c].st = "closed"]
    /\ UNCHANGED <<ctl, socket_task, coreVars, schedVars, moodVars>>

\* _handle_client(): a line has come in; the reply is written unless the
\* command awaits a coroutine method first.  An exception nothing caught
\* would end the task before it writes.
ServeLine ==
    /\ CoreIdle
    /\ \E c \in Conns, line \in Lines :
        LET out == HandleLine(line)
            before == <<tick_count, data_store_tick, debug, trace, mod_debug,
                        mod_trace, modules, attached_internal, attached_prosthetic,
                        ready_modules>>
        IN  /\ conns[c].st = "accepted"
            /\ debug' = out.debug
            /\ mod_debug' = out.mod_debug
            /\ trace' = out.trace
            /\ mod_trace' = out.mod_trace
            /\ IF out.awaiting
               THEN /\ conns' = [conns EXCEPT ![c].st = "calling",
                                               ![c].reads = @ + 1,
                                               ![c].served = @ + 1,
                                               ![c].line = line,
                                               ![c].invoked = out.invoked]
                    /\ UNCHANGED ctl
               ELSE /\ conns' = [conns EXCEPT ![c].st = IF out.raised THEN "closed"
                                                        ELSE "written",
                                               ![c].reads = @ + 1,
                                               ![c].served = @ + 1,
                                               ![c].writes = IF out.raised THEN @
                                                            ELSE @ + 1]
                    /\ ctl' = [conn |-> c, line |-> line, reply |-> out.reply,
                               invoked |-> out.invoked, escaped |-> out.raised,
                               changed |-> before #
                                   <<tick_count, data_store_tick, out.debug,
                                     out.trace, out.mod_debug, out.mod_trace,
                                     modules, attached_internal,
                                     attached_prosthetic, ready_modules>>]
    /\ UNCHANGED <<boot, scan_left, attaching, modules, mod_ready, tick_count,
                   data_store_tick, attached_internal, attached_prosthetic,
                   ready_modules, ready_writes, pulses, cpc, pulse, toggles,
                   scanned, ghost_modules, tasks>>
    /\ UNCHANGED <<socket_task, schedVars, moodVars>>

\* call: the awaited coroutine method returns and the reply is written.
CallReturns ==
    /\ CoreIdle
    /\ \E c \in Conns :
        /\ conns[c].st = "calling"
        /\ conns' = [conns EXCEPT ![c].st = "written", ![c].writes = @ + 1,
                                   ![c].line = NoLine, ![c].invoked = NoCall]
        /\ ctl' = [conn |-> c, line |-> conns[c].line,
                   reply |-> Ok([result |-> CallResult(conns[c].invoked.method,
                                                       conns[c].invoked.kwargs)]),
                   invoked |-> conns[c].invoked, escaped |-> FALSE,
                   changed |-> FALSE]
    /\ UNCHANGED <<socket_task, coreVars, schedVars, moodVars>>

\* _handle_client(): write() has queued the reply; the task waits in drain().
Drain ==
    /\ ctl.conn # 0
    /\ ctl' = NoDispatch
    /\ UNCHANGED <<conns, socket_task, coreVars, schedVars, moodVars>>

AfterDrainKeepAlive == "accepted"
\* _handle_client(): nothing follows drain() but the `finally` that closes.
AfterDrain == "closed"

\* _handle_client(): `finally: writer.close()`.
Close ==
    /\ CoreIdle
    /\ \E c \in Conns :
        /\ conns[c].st = "written"
        /\ conns' = [conns EXCEPT ![c].st = AfterDrain]
    /\ UNCHANGED <<ctl, socket_task, coreVars, schedVars, moodVars>>

\* DEVILCore.__init__: the server task is created there when an event loop is
\* running (kari.py) and left to run_forever() when none is (main.py).
CtlInit(loopRunning) ==
    /\ conns = [c \in Conns |-> FreeConn]
    /\ ctl = NoDispatch
    /\ socket_task = IF loopRunning THEN "scheduled" ELSE "none"

(***************************************************************************)
(* The Mood Engine.  Its coroutines await only the memory cortex and the   *)
(* voice channel, which the model takes to return without suspending the   *)
(* task, so every operation below is one step.  pulse() rate-limits the    *)
(* decay tick; the model lets the tick run at any time.                    *)
(***************************************************************************)
EmotionOrder ==
    <<"happy", "angry", "sad", "anxious", "excited", "glitched", "neutral">>
Emotions == {EmotionOrder[i] : i \in 1..Len(EmotionOrder)}

defcon_gap == 3
\* self._last_defcon = None: no level has been announced.
NoLevel == 0
MaxMoodOps == 4
MoodHorizon == 3

\* DEFCON_MAP and _calc_defcon(): DEFCON_MAP.get(mood, 4)
CalcDefcon(mood) ==
    CASE mood = "happy"    -> 5
      [] mood = "neutral"  -> 4
      [] mood = "anxious"  -> 3
      [] mood = "angry"    -> 2
      [] mood = "glitched" -> 1
      [] OTHER             -> 4

GetMoodCurrentFirst(ov, cur) ==
    IF cur # None THEN cur ELSE IF ov # None THEN ov ELSE "neutral"
\* get_mood(): self.override_mood or self._current_mood or "neutral"
GetMoodOf(ov, cur) == IF ov # None THEN ov ELSE IF cur # None THEN cur ELSE "neutral"
GetMood == GetMoodOf(override_mood, current_mood)

\* get_defcon_level()
GetDefconLevel == CalcDefcon(GetMood)

\* self.scores[m] = v: a key the table does not hold yet is added at its end.
Store(sc, m, v) == [k \in DOMAIN sc \cup {m} |-> IF k = m THEN v ELSE sc[k]]
\* self.scores.get(m, 0)
ScoreOf(sc, m) == IF m \in DOMAIN sc THEN sc[m] ELSE 0

\* The keys of self.scores in the dict's order: the seven of __init__, then
\* the key a later write added (the inputs of the model add at most one).
KeyOrder(sc) ==
    IF DOMAIN sc \subseteq Emotions THEN EmotionOrder
    ELSE Append(EmotionOrder, CHOOSE k \in DOMAIN sc \ Emotions : TRUE)

DominantLowest(sc) ==
    EmotionOrder[CHOOSE i \in 1..Len(EmotionOrder) :
        \A j \in 1..Len(EmotionOrder) : sc[EmotionOrder[i]] <= sc[EmotionOrder[j]]]
\* _resolve_mood(): max(self.scores, key=self.scores.get), the first emotion
\* of the table that no other one beats.
Dominant(sc) ==
    LET keys == KeyOrder(sc) IN
    keys[CHOOSE i \in 1..Len(keys) :
        /\ \A j \in 1..Len(keys) : sc[keys[j]] <= sc[keys[i]]
        /\ \A j \in 1..(i - 1) : sc[keys[j]] < sc[keys[i]]]

\* adjust_mood(): max(0, min(100, ...))
Clamp(v) == IF v < 0 THEN 0 ELSE IF v > 100 THEN 100 ELSE v

\* adjust_mood(mood, delta)
AdjustMoodOf(sc, mood, delta) == Store(sc, mood, Clamp(ScoreOf(sc, mood) + delta))

DecayAll(sc) == [m \in DOMAIN sc |-> sc[m] - 1]
\* _tick_async(): every score above 0 loses 1.
Decay(sc) == [m \in DOMAIN sc |-> IF sc[m] > 0 THEN sc[m] - 1 ELSE sc[m]]

\* _announce_defcon(): now - self._last_defcon_ts >= self._defcon_gap
GapPassed(t, last_ts) == t - last_ts >= defcon_gap

\* _announce_defcon(): the announcement goes out when the level is new and
\* the gap has passed.
Announces(new) ==
    /\ (last_defcon = NoLevel \/ new # last_defcon)
    /\ GapPassed(now, last_defcon_ts)

NoMoodOp == [op |-> None]

\* if self.cortex: await self.cortex.speak(...): the awaited collaborator
\* returns at once, or it suspends the caller and the event loop runs other
\* tasks before the caller goes on.
AwaitSuspends == BOOLEAN

\* _announce_defcon(new), with the record of the call for the operation `op`:
\* the level and the time are compared, the announcement is sent through the
\* awaited collaborators, and only then are _last_defcon and _last_defcon_ts
\* written, with the time read on entry.
AnnounceDefcon(new, op) ==
    IF Announces(new)
    THEN /\ announced' = [level |-> new, at |-> now]
         /\ \E suspends \in AwaitSuspends :
              IF suspends
              THEN /\ cortex
                   /\ pending = NoMoodOp
                   /\ pending' = [op |-> op.op, mood |-> op.mood, level |-> new,
                                  at |-> now, started |-> mops + 1,
                                  had_override |-> op.had_override]
                   /\ UNCHANGED <<last_defcon, last_defcon_ts>>
                   /\ mop' = [op EXCEPT !.asked = new, !.emitted = TRUE,
                                        !.prev = announced, !.done = FALSE]
              ELSE /\ last_defcon' = new
                   /\ last_defcon_ts' = now
                   /\ UNCHANGED pending
                   /\ mop' = [op EXCEPT !.asked = new, !.emitted = TRUE,
                                        !.prev = announced]
    ELSE /\ UNCHANGED <<last_defcon, last_defcon_ts, announced, pending>>
         /\ mop' = [op EXCEPT !.asked = new]

ApplyNever(new_mood) == UNCHANGED <<current_mood, persisted>>
\* _apply_if_changed(new_mood): the commit and, with a cortex bound, the
\* mood handed to cortex.set_current_mood.
ApplyIfChanged(new_mood) ==
    IF new_mood # current_mood
    THEN /\ current_mood' = new_mood
         /\ persisted' = IF cortex THEN new_mood ELSE persisted
    ELSE UNCHANGED <<current_mood, persisted>>

MoodOp(name, mood) ==
    [op |-> name, mood |-> mood, asked |-> 0, emitted |-> FALSE, prev |-> NoMoodOp,
     had_override |-> override_mood # None, done |-> TRUE, resumed |-> FALSE,
     clean |-> TRUE]

MoodIdle == mop = NoMoodOp /\ mops < MaxMoodOps

MoodFrame == UNCHANGED <<coreVars, ctlVars, schedVars>>

\* initialize(): binds the cortex, recalls the saved mood and commits it.
Initialize ==
    /\ MoodIdle
    /\ ~cortex
    /\ \E saved \in {None, "glitched"} :
        LET cur == IF saved # None THEN saved ELSE "neutral" IN
        /\ current_mood' = cur
        /\ mood_scores' = Store(mood_scores, cur, 100)
        /\ persisted' = cur
    /\ cortex' = TRUE
    /\ mops' = mops + 1
    /\ UNCHANGED <<override_mood, last_defcon, last_defcon_ts, announced, mop,
                   pending>>
    /\ MoodFrame

SetMoods == {"happy", "glitched"}
SetScores == {150, -5}

\* set_mood(mood, score)
SetMoodBody(mood, score) ==
    /\ override_mood' = mood
    /\ mood_scores' = Store(mood_scores, mood, score)
    /\ ApplyIfChanged(mood)
    /\ AnnounceDefcon(CalcDefcon(mood), MoodOp("set_mood", mood))
    /\ mops' = mops + 1
    /\ UNCHANGED cortex
    /\ MoodFrame

SetMood ==
    /\ MoodIdle
    /\ \E mood \in SetMoods, score \in SetScores : SetMoodBody(mood, score)

\* override(mood): schedules set_mood(mood) with the default score.
Override ==
    /\ MoodIdle
    /\ \E mood \in SetMoods : SetMoodBody(mood, 100)

\* clear_override()
ClearOverride ==
    /\ MoodIdle
    /\ override_mood # None
    /\ override_mood' = None
    /\ mops' = mops + 1
    /\ UNCHANGED <<mood_scores, current_mood, cortex, persisted, last_defcon,
                   last_defcon_ts, announced, mop, pending>>
    /\ MoodFrame

AdjustArgs == {<<"happy", 10>>, <<"sad", 40>>, <<"neutral", 5>>, <<"neutral", -200>>}

ScoresThenResolve(sc) ==
    /\ mood_scores' = sc
    /\ mops' = mops + 1
    /\ current_mood' = Dominant(sc)
    /\ persisted' = IF cortex THEN Dominant(sc) ELSE persisted
    /\ UNCHANGED <<override_mood, cortex, last_defcon, last_defcon_ts, announced,
                   mop, pending>>
    /\ MoodFrame
\* adjust_mood() and the signal inputs write self.scores and nothing else.
ScoresOnly(sc) ==
    /\ mood_scores' = sc
    /\ mops' = mops + 1
    /\ UNCHANGED <<override_mood, current_mood, cortex, persisted, last_defcon,
                   last_defcon_ts, announced, mop, pending>>
    /\ MoodFrame

\* adjust_mood(mood, delta)
AdjustMood ==
    /\ MoodIdle
    /\ \E a \in AdjustArgs : ScoresOnly(AdjustMoodOf(mood_scores, a[1], a[2]))

If(cond, sc, mood, delta) == IF cond THEN AdjustMoodOf(sc, mood, delta) ELSE sc

Vitals == {[cpu |-> 90, mem |-> 10, temp |-> 0]}

\* update_from_heartbeat(cpu, mem, temp); a zero reading is falsy.
UpdateFromHeartbeat ==
    /\ MoodIdle
    /\ \E v \in Vitals :
        ScoresOnly(If(v.mem # 0 /\ v.mem < 20,
                      If(v.cpu # 0 /\ v.cpu > 80,
                         If(v.temp # 0 /\ v.temp > 60, mood_scores, "anxious", 10),
                         "angry", 5),
                      "sad", 5))

\* update_from_network(signal); a zero signal is falsy.
UpdateFromNetwork ==
    /\ MoodIdle
    /\ \E signal \in {20, 90} :
        ScoresOnly(IF signal # 0 /\ signal < 30
                   THEN AdjustMoodOf(mood_scores, "anxious", 10)
                   ELSE If(signal # 0 /\ signal > 80, mood_scores, "happy", 5))

\* update_from_error(critical)
UpdateFromError ==
    /\ MoodIdle
    /\ \E critical \in BOOLEAN :
        ScoresOnly(IF critical
                   THEN AdjustMoodOf(AdjustMoodOf(mood_scores, "glitched", 20), "angry", 10)
                   ELSE AdjustMoodOf(mood_scores, "sad", 5))

\* update_from_idle(seconds)
UpdateFromIdle ==
    /\ MoodIdle
    /\ \E seconds \in {400} :
        ScoresOnly(IF seconds > 300
                   THEN AdjustMoodOf(AdjustMoodOf(mood_scores, "anxious", 5), "sad", 3)
                   ELSE mood_scores)

\* reset_scores()
ResetScores ==
    /\ MoodIdle
    /\ ScoresOnly([m \in DOMAIN mood_scores |-> 0])

\* _resolve_mood()
ResolveMood ==
    /\ MoodIdle
    /\ ApplyIfChanged(Dominant(mood_scores))
    /\ mop' = MoodOp("resolve", Dominant(mood_scores))
    /\ mops' = mops + 1
    /\ UNCHANGED <<mood_scores, override_mood, cortex, last_defcon, last_defcon_ts,
                   announced, pending>>
    /\ MoodFrame

\* _tick_async(): decay, resolve, announce the level of the dominant emotion.
TickBody ==
    /\ mood_scores' = Decay(mood_scores)
    /\ ApplyIfChanged(Dominant(Decay(mood_scores)))
    /\ AnnounceDefcon(CalcDefcon(Dominant(Decay(mood_scores))),
                      MoodOp("tick", Dominant(Decay(mood_scores))))
    /\ UNCHANGED <<override_mood, cortex>>
    /\ MoodFrame

TickAsync ==
    /\ MoodIdle
    /\ TickBody
    /\ mops' = mops + 1

\* pulse() -> _tick_async(), tick after tick for as long as the orchestrator
\* pulses; these ticks are not counted.
DecayTick ==
    /\ mop = NoMoodOp
    /\ TickBody
    /\ UNCHANGED mops

\* trigger_panic_routine(): announces the level of get_mood().
TriggerPanicRoutine ==
    /\ MoodIdle
    /\ AnnounceDefcon(CalcDefcon(GetMood), MoodOp("panic", GetMood))
    /\ mops' = mops + 1
    /\ UNCHANGED <<mood_scores, override_mood, current_mood, cortex, persisted>>
    /\ MoodFrame

\* _announce_defcon() goes on after its awaits: _last_defcon and
\* _last_defcon_ts are written and the operation that called it returns.
AnnounceResume ==
    /\ mop = NoMoodOp
    /\ pending # NoMoodOp
    /\ last_defcon' = pending.level
    /\ last_defcon_ts' = pending.at
    /\ pending' = NoMoodOp
    /\ mop' = [op |-> pending.op, mood |-> pending.mood, asked |-> pending.level,
               emitted |-> FALSE, prev |-> NoMoodOp,
               had_override |-> pending.had_override, done |-> TRUE,
               resumed |-> TRUE, clean |-> mops = pending.started]
    /\ UNCHANGED <<mood_scores, override_mood, current_mood, cortex, persisted,
                   announced, mops>>
    /\ MoodFrame

\* The operation has returned to its caller, or is suspended and the event
\* loop runs the next task.
MoodReturn ==
    /\ mop # NoMoodOp
    /\ mop' = NoMoodOp
    /\ UNCHANGED <<mood_scores, override_mood, current_mood, cortex, persisted,
                   last_defcon, last_defcon_ts, announced, mops, pending>>
    /\ MoodFrame

\* time.time() moves on between two operations.
MoodAdvance ==
    /\ mop = NoMoodOp
    /\ \E d \in {defcon_gap} :
        /\ now + d <= BootTime + MoodHorizon
        /\ now' = now + d
    /\ UNCHANGED <<ready, last_run, last_chat, journal, cycles, pc, delivered, ev>>
    /\ UNCHANGED <<coreVars, ctlVars, moodVars, quiet_hours>>

\* MoodEngine.__init__
MoodInit ==
    /\ mood_scores = [m \in Emotions |-> 0]
    /\ override_mood = None
    /\ current_mood = None
    /\ cortex = FALSE
    /\ persisted = None
    /\ last_defcon = NoLevel
    /\ last_defcon_ts = 0
    /\ announced = NoMoodOp
    /\ mop = NoMoodOp
    /\ pending = NoMoodOp
    /\ mops = 0

\* DEVILCore.__init__: the flags come from the arguments and the environment,
\* and a preloaded Memory Cortex is bound and counted as attached.  `files`
\* are the module files the two directories hold.
CoreInitWith(files, preloaded, memReady, envDebug, argDebug, envTrace, coreTrace) ==
    /\ boot = "scanning"
    /\ scan_left = files
    /\ attaching = NoAttach
    /\ modules = IF preloaded THEN <<MemoryCortex>> ELSE <<>>
    /\ mod_debug = [m \in Catalogue |-> m = "Mood Engine" /\ envDebug]
    /\ mod_trace = [m \in Catalogue |-> m = "Mood Engine" /\ envTrace]
    /\ mod_ready = [m \in Names |-> m = MemoryCortex /\ preloaded /\ memReady]
    /\ debug = (argDebug \/ envDebug)
    /\ trace = coreTrace
    /\ tick_count = 0
    /\ data_store_tick = 0
    /\ attached_internal = IF preloaded THEN <<MemoryCortex>> ELSE <<>>
    /\ attached_prosthetic = <<>>
    /\ ready_modules =
          [m \in (IF preloaded THEN {MemoryCortex} ELSE {}) |->
              IsReady(m, mod_ready)]
    /\ ready_writes = [m \in Names |-> IF m = MemoryCortex /\ preloaded
                                        THEN 1 ELSE 0]
    /\ pulses = 0
    /\ cpc = "idle"
    /\ pulse = NoPulse
    /\ toggles = <<>>
    /\ scanned = {}
    /\ ghost_modules = Ghosts(preloaded)
    /\ tasks = 0

CoreInit(preloaded, memReady, envDebug, argDebug, envTrace, coreTrace) ==
    CoreInitWith(Catalogue, preloaded, memReady, envDebug, argDebug, envTrace,
                 coreTrace)

SchedInit ==
    /\ now = BootTime
    /\ ready = FALSE
    /\ last_run = [a \in ActionNames |-> 0]
    /\ last_chat = 0
    /\ journal = 0
    /\ cycles = 0
    /\ pc = "idle"
    /\ delivered = [a \in ActionNames |-> 0]
    /\ ev = NoCycle
    /\ quiet_hours = [enabled |-> FALSE, start |-> 2, end |-> 6]

\* The Decision Engine under main.py's orchestrator: DEVILCore(preloaded, debug=True).
InitSched ==
    SchedInit /\ CtlInit(FALSE) /\ MoodInit /\ CoreInit(TRUE, FALSE, FALSE, TRUE, FALSE, FALSE)

NextSched ==
    InitEngine \/ LoopTick \/ PulseTick \/ TickExecute \/ TickReturn \/ Advance

SpecSched == InitSched /\ [][NextSched]_vars

\* The blackboard of the quiet-hours runs: five networks in sight, a known
\* last network, a busy processor and no alert level of its own.
QuietBoards ==
    {[defcon |-> 0, nets |-> 5, last_wifi |-> TRUE, cpu |-> "high"]}

QuietLoopTick == LoopTickWith(QuietBoards, {""}, Deltas, MaxCycles)

\* The Decision Engine with its quiet hours set and reset between the ticks.
NextQuiet ==
    InitEngine \/ SetQuietHours \/ QuietLoopTick \/ TickExecute \/ TickReturn \/ Advance

SpecQuiet == InitSched /\ [][NextQuiet]_vars

\* The blackboards of the plan runs: a quiet one at alert level 5 with no
\* network in sight, and a busy one at level 3.
PlanBoards ==
    {[defcon |-> 5, nets |-> 0, last_wifi |-> FALSE, cpu |-> "low"],
     [defcon |-> 3, nets |-> 5, last_wifi |-> TRUE, cpu |-> "high"]}

\* The timer loop at its own cadence, tick_seconds, for two cycles more.
PlanLoopTick ==
    LoopTickWith(PlanBoards, {"", "glitched"}, {tick_seconds, 100}, MaxCycles + 2)

\* The orchestrator's pulse reaches pulse() in a round second.
PlanPulseTick == PulseTickWith(PlanBoards, {"", "glitched"}, MaxCycles + 2)

\* The Decision Engine ticking every ten seconds, and on pulses in between.
NextPlan ==
    InitEngine \/ PlanLoopTick \/ PlanPulseTick \/ TickExecute \/ TickReturn

SpecPlan == InitSched /\ [][NextPlan]_vars

\* The blackboards of the endless runs: no network was ever greeted.
StarveBoards == {bb \in Blackboards : ~bb.last_wifi}

\* _loop(): `while True: await asyncio.sleep(tick_seconds); self.tick()`, cycle
\* after cycle; these cycles are not counted.
StarveTick ==
    /\ ready
    /\ now + tick_seconds <= MaxTime
    /\ now' = now + tick_seconds
    /\ TickCycle("loop", now + tick_seconds, StarveBoards, MemoryMoods)
    /\ UNCHANGED <<ready, cycles>>

\* execute() on an orchestrator whose registry lacks the target module, or
\* holds one without the method.
StarveExecute == TickExecute /\ ev'.result \in {"absent", "no_method"}

\* The whole ticks of the horizon, in seconds.
Shift == (Horizon \div tick_seconds) * tick_seconds
Moved(ts) == IF ts > Shift THEN ts - Shift ELSE 0

\* The clock is kept inside the horizon: the epoch moves forward by Shift
\* seconds and every timestamp with it; one that falls before the epoch reads
\* as 0, the value of a key that was never written.
Rollover ==
    /\ pc = "idle"
    /\ now + tick_seconds > MaxTime
    /\ now' = now - Shift
    /\ last_run' = [a \in ActionNames |-> Moved(last_run[a])]
    /\ delivered' = [a \in ActionNames |-> Moved(delivered[a])]
    /\ last_chat' = Moved(last_chat)
    /\ UNCHANGED <<ready, journal, cycles, pc, ev>>
    /\ UNCHANGED <<coreVars, ctlVars, moodVars, quiet_hours>>

\* The timer loop for ever, on an orchestrator that holds none of the target
\* modules.
NextStarve == InitEngine \/ StarveTick \/ StarveExecute \/ TickReturn \/ Rollover

\* init() starts the loop, the loop never ends, and tick() runs to its end.
SpecStarve ==
    /\ InitSched
    /\ [][NextStarve]_vars
    /\ WF_vars(InitEngine) /\ WF_vars(StarveTick) /\ WF_vars(StarveExecute)
    /\ WF_vars(TickReturn) /\ WF_vars(Rollover)

Init ==
    /\ SchedInit
    /\ CtlInit(TRUE)
    /\ MoodInit
    /\ \E preloaded, memReady, envDebug, argDebug, envTrace, coreTrace \in BOOLEAN :
          /\ (memReady => preloaded)
          /\ CoreInit(preloaded, memReady, envDebug, argDebug, envTrace, coreTrace)

Next ==
    \/ ScanSkip \/ AttachRegister \/ AttachHooks \/ AttachFinish \/ RunForever
    \/ Pulse \/ PulseReturn
    \/ DebugCommand \/ TraceCommand \/ BrainDebug

Spec == Init /\ [][Next]_vars

\* The control socket beside a booting and pulsing orchestrator; the
\* directories hold the plugin alone.
InitCtl ==
    /\ SchedInit
    /\ MoodInit
    /\ \E preloaded, loopRunning \in BOOLEAN :
          /\ CtlInit(loopRunning)
          /\ CoreInitWith({"Plugin"}, preloaded, FALSE, FALSE,
                          FALSE, FALSE, FALSE)

NextCtl ==
    \/ AttachRegister \/ AttachHooks \/ AttachFinish \/ RunForever
    \/ StartControlSocket \/ Pulse \/ PulseReturn
    \/ Accept \/ PeerGone \/ ServeLine \/ CallReturns \/ Drain \/ Close

SpecCtl == InitCtl /\ [][NextCtl]_vars

\* The host's boot (kari.py, main.py): a memory cortex is handed in, the
\* internal directory holds its file and the language model's, and the
\* run-forever task can be cancelled.  Clients connect to the control socket
\* and hang up.
InitHost ==
    /\ SchedInit
    /\ MoodInit
    /\ \E memReady, loopRunning, envDebug \in BOOLEAN :
          /\ CtlInit(loopRunning)
          /\ CoreInitWith({MemoryCortex, "LlmModel"}, TRUE, memReady, envDebug,
                          FALSE, FALSE, FALSE)

NextHost ==
    \/ ScanGhost \/ ScanSkip \/ AttachRegister \/ AttachHooks \/ AttachFinish
    \/ RunForever \/ StartControlSocket \/ Pulse \/ PulseReturn \/ Cancel
    \/ BrainDebug \/ Accept \/ PeerGone

SpecHost == InitHost /\ [][NextHost]_vars

\* The two prosthetics under a pulsing orchestrator; the tasks its pulses
\* create run to their end at any time between two pulses, or later.
InitAsync ==
    /\ SchedInit
    /\ MoodInit
    /\ CtlInit(TRUE)
    /\ \E envDebug \in BOOLEAN :
          CoreInitWith({"Plugin", Lokisfury}, TRUE, TRUE, envDebug, FALSE,
                       FALSE, FALSE)

NextAsync ==
    \/ ScanSkip \/ AttachRegister \/ AttachHooks \/ AttachFinish \/ RunForever
    \/ Pulse \/ PulseReturn \/ TaskDone

SpecAsync == InitAsync /\ [][NextAsync]_vars

\* The Mood Engine from its construction on.
InitMood ==
    /\ SchedInit
    /\ CtlInit(FALSE)
    /\ MoodInit
    /\ CoreInit(TRUE, FALSE, FALSE, FALSE, FALSE, FALSE)

NextMood ==
    \/ Initialize \/ SetMood \/ Override \/ ClearOverride \/ AdjustMood
    \/ UpdateFromHeartbeat \/ UpdateFromNetwork \/ UpdateFromError
    \/ UpdateFromIdle \/ ResetScores \/ ResolveMood \/ TickAsync
    \/ TriggerPanicRoutine \/ AnnounceResume \/ MoodReturn \/ MoodAdvance

SpecMood == InitMood /\ [][NextMood]_vars

\* The Mood Engine fed by its signal inputs, between explicit sets and decay
\* ticks.
NextSignals ==
    \/ Initialize \/ SetMood \/ AdjustMood \/ UpdateFromHeartbeat
    \/ UpdateFromNetwork \/ UpdateFromError \/ UpdateFromIdle \/ TickAsync
    \/ AnnounceResume \/ MoodReturn \/ MoodAdvance

SpecSignals == InitMood /\ [][NextSignals]_vars

\* The callers hand set_mood() and adjust_mood() the name they were given:
\* an emotion of the table or another word.
GivenMoods == {"happy", "dreamy"}

GivenSetMood ==
    /\ MoodIdle
    /\ \E mood \in GivenMoods : SetMoodBody(mood, 100)

GivenAdjustMood ==
    /\ MoodIdle
    /\ \E mood \in GivenMoods : ScoresOnly(AdjustMoodOf(mood_scores, mood, 40))

NextGiven ==
    \/ Initialize \/ GivenSetMood \/ GivenAdjustMood \/ ClearOverride \/ TickAsync
    \/ AnnounceResume \/ MoodReturn \/ MoodAdvance

SpecGiven == InitMood /\ [][NextGiven]_vars

\* The Mood Engine left to its decay: no signal input, no override.  The
\* orchestrator initializes the module and goes on pulsing, and an awaited
\* call returns in the end.
NextDecay ==
    Initialize \/ DecayTick \/ AnnounceResume \/ MoodReturn \/ MoodAdvance

SpecDecay ==
    /\ InitMood /\ [][NextDecay]_vars
    /\ SF_vars(Initialize) /\ WF_vars(DecayTick)
    /\ WF_vars(AnnounceResume) /\ WF_vars(MoodReturn)

(***************************************************************************)
(* The Decision Engine beside the Mood Engine.  Both hang off the same     *)
(* orchestrator: the Mood Engine's cortex is core.memory, the object whose *)
(* get_current_mood() the snapshot reads; no module in the repository      *)
(* publishes a "defcon" fact on the blackboard.                            *)
(***************************************************************************)
GateBoards == {[defcon |-> 0, nets |-> 1, last_wifi |-> TRUE, cpu |-> "low"]}

\* _loop() -> tick() once the Mood Engine has bound the memory cortex:
\* _get_shared() reads the mood that was last stored there.
GateTick ==
    /\ cortex
    /\ LoopTickWith(GateBoards, {persisted}, {tick_seconds}, MaxCycles)

\* tick() is synchronous: the Mood Engine's coroutines run between the cycles.
GateMood ==
    /\ pc = "idle"
    /\ \/ Initialize \/ SetMood \/ ClearOverride \/ TickAsync
       \/ AnnounceResume \/ MoodReturn

NextGate == InitEngine \/ GateTick \/ TickExecute \/ TickReturn \/ GateMood

SpecGate == InitMood /\ [][NextGate]_vars

(***************************************************************************)
(* Claims about the Decision Engine, checked under SpecSched.              *)
(***************************************************************************)
InCycle == pc \in {"evaluated", "executed"}

\* C1: in every decision cycle evaluate() scores and plan() returns no action
\* whose now - last_fired is below its cooldown, whatever its score; an action
\* with cooldown 300 is out 100 s after it fired and is scored again 301 s after
\* it fired when its alert ceiling and its score allow it.
C1_CooldownNeverSelected ==
    InCycle =>
        \A a \in ActionNames :
            /\ (now - ev.before[a] < Policy(a).cooldown
                    => ev.scores[a] = 0 /\ ev.plan # a)
            /\ (Policy(a).cooldown = 300 /\ now - ev.before[a] = 100
                    => ev.scores[a] = 0 /\ ev.plan # a)
            /\ ((/\ Policy(a).cooldown = 300 /\ now - ev.before[a] = 301
                 /\ ev.snap.defcon <= Policy(a).defcon_max
                 /\ ~ScoreRaises(a, ev.snap) /\ ScoreFn(a, ev.snap, now) > 0)
                    => ev.scores[a] > 0)

\* The cycle 100 s after wifi_recon_dump (cooldown 300) fired: its score would be
\* the highest of all entries, and another action is planned.
C1_Witness ==
    /\ pc = "executed"
    /\ ev.before["wifi_recon_dump"] # 0
    /\ now - ev.before["wifi_recon_dump"] = 100
    /\ ev.snap.defcon <= 3
    /\ \A b \in ActionNames \ {"wifi_recon_dump"} :
          FinalScore(b, ev.snap, now) < FinalScore("wifi_recon_dump", ev.snap, now)
    /\ ev.plan \notin {None, "wifi_recon_dump"}

\* C2: in every decision cycle an action whose ceiling defcon_max is below the
\* current alert level is neither scored nor planned, whatever its score and
\* cooldown state.
C2_CeilingNeverSelected ==
    InCycle =>
        \A a \in ActionNames :
            ev.snap.defcon > Policy(a).defcon_max
                => ev.scores[a] = 0 /\ ev.plan # a

\* Alert level 5: report_health (ceiling 4) is out of its cooldown and would
\* score above every entry that is allowed, and another action is planned.
C2_Witness ==
    /\ pc = "executed"
    /\ ev.snap.defcon = 5
    /\ now - ev.before["report_health"] >= 180
    /\ \A b \in Candidates(ev.scores) :
          ev.scores[b] < FinalScore("report_health", ev.snap, now)
    /\ ev.plan # None

\* C3: an entry is in the scored set evaluate() returns if and only if the alert
\* level is at most its ceiling, now - last_fired is at least its cooldown, and
\* its score of the snapshot is positive (a score function that throws counts 0).
C3_EligibleIff ==
    InCycle =>
        \A a \in ActionNames :
            ev.scores[a] > 0
                <=> /\ ev.snap.defcon <= Policy(a).defcon_max
                    /\ now - ev.before[a] >= Policy(a).cooldown
                    /\ ~ScoreRaises(a, ev.snap)
                    /\ ScoreFn(a, ev.snap, now) > 0

\* One evaluation in which an entry is left out for each of the three reasons
\* alone, one for a throwing score function, and one is scored.
C3_Witness ==
    /\ pc = "evaluated"
    /\ ev.snap.defcon > 3 /\ now - ev.before["wifi_recon_dump"] >= 300
    /\ \E a \in ActionNames :
          /\ ev.before[a] # 0 /\ now - ev.before[a] < Policy(a).cooldown
          /\ ev.snap.defcon <= Policy(a).defcon_max
          /\ ScoreFn(a, ev.snap, now) > 0
    /\ ScoreFn("wifi_greet_new_ssid", ev.snap, now) = 0
    /\ ScoreRaises("report_health", ev.snap) /\ ev.snap.defcon <= 4
    /\ ev.scores["report_health"] = 0
    /\ \E a \in ActionNames : ev.scores[a] > 0

\* C4: whichever trigger starts the cycles, two successful dispatches of the same
\* action are at least that action's cooldown apart.
C4_OncePerCooldown ==
    pc = "executed" /\ ev.plan # None /\ ev.result \in Delivery
                    /\ ev.prev_delivery # 0
        => now - ev.prev_delivery >= Policy(ev.plan).cooldown

\* A second successful dispatch of an action, in a cycle the orchestrator's
\* pulse started.
C4_Witness ==
    /\ pc = "executed" /\ ev.trigger = "pulse"
    /\ ev.plan # None /\ ev.result \in Delivery
    /\ ev.prev_delivery # 0

\* C5: when the target module of a delegated action is absent, its method is
\* missing, or the invocation throws, execute() leaves the action's last-fired
\* timestamp as it was and journals nothing, so the cooldown gate still lets the
\* action through; nothing leaves execute() as an exception.
C5_FailedDispatchKeepsCooldown ==
    /\ InCycle => ~ev.escaped
    /\ pc = "executed" /\ ev.result \in {"absent", "no_method", "raised"}
        => /\ last_run = ev.before
           /\ ~ev.journaled
           /\ CooldownGate(ev.plan, last_run, now)

\* A delegated action whose target method threw.
C5_Witness ==
    /\ pc = "executed"
    /\ ev.plan # None /\ Policy(ev.plan).module # None
    /\ ev.result = "raised"
    /\ last_run[ev.plan] = ev.before[ev.plan]

(***************************************************************************)
(* Claims about the orchestrator, checked under Spec.                      *)
(***************************************************************************)
Attached(m) == InSeq(attached_internal, m) \/ InSeq(attached_prosthetic, m)

\* C6: for every attached module ready_modules[name] has been written exactly
\* once, with the readiness the module showed after its setup hooks, and it keeps
\* that value through pulses, background tasks and control commands, also when
\* the module's methods fail later; a module that is not attached has no entry.
C6_ReadyWrittenOnce ==
    \A m \in Names :
        /\ Attached(m) => /\ ready_writes[m] = 1
                          /\ m \in DOMAIN ready_modules
                          /\ ready_modules[m] = mod_ready[m]
        /\ ~Attached(m) => ready_writes[m] = 0 /\ m \notin DOMAIN ready_modules

\* A module attached as ready throws in the second pulse or a later one, after
\* debug commands have been served.
C6_Witness ==
    /\ cpc = "pulsed" /\ pulses >= 2 /\ toggles # <<>>
    /\ \E m \in Catalogue :
          Attached(m) /\ ready_modules[m] /\ m \in pulse.raised

\* C7: in every pulse, when a pulse method of a module throws, each module
\* registered after it still has its pulse methods invoked in that pulse (all of
\* them unless it throws itself), and nothing leaves pulse() as an exception.
C7_PulseSurvivesFailure ==
    cpc = "pulsed" =>
        /\ ~pulse.escaped
        /\ \A r \in pulse.raised : \A i \in 1..Len(modules) :
              i > IndexOf(modules, r) =>
                  \A k \in 1..Len(PulseList(modules[i])) :
                      (modules[i] \notin pulse.raised \/ k = 1) =>
                          \E j \in 1..Len(pulse.log) :
                              /\ pulse.log[j].mod = modules[i]
                              /\ pulse.log[j].method = PulseList(modules[i])[k]

\* A pulse in which a module threw and a module registered after it was invoked.
C7_Witness ==
    /\ cpc = "pulsed"
    /\ \E r \in pulse.raised : \E j \in 1..Len(pulse.log) :
          /\ pulse.log[j].mod # r
          /\ IndexOf(modules, pulse.log[j].mod) > IndexOf(modules, r)

\* C8: after n pulses, whatever modules are registered, the blackboard's tick
\* and the orchestrator's tick counter both equal n (each pulse adds exactly
\* one), and no pulse let an exception out.
C8_TickCountsPulses ==
    /\ tick_count = pulses
    /\ data_store_tick = pulses
    /\ ~pulse.escaped

\* Three pulses on an empty registry: tick 3.
C8_Witness ==
    /\ modules = <<>>
    /\ pulses = 3
    /\ data_store_tick = 3

\* C9: within one pulse the dispatches follow the registry's insertion order:
\* every method of a module registered earlier is invoked or scheduled before
\* any method of a module registered later.
C9_PulseInRegistryOrder ==
    cpc = "pulsed" =>
        \A i, j \in 1..Len(pulse.log) :
            i < j => IndexOf(modules, pulse.log[i].mod)
                        <= IndexOf(modules, pulse.log[j].mod)

\* A pulse that dispatched three modules, one method of them by scheduling.
C9_Witness ==
    /\ cpc = "pulsed"
    /\ Cardinality({pulse.log[i].mod : i \in 1..Len(pulse.log)}) = 3
    /\ \E k \in 1..Len(pulse.log) : pulse.log[k].how = "scheduled"

\* C10: after two `debug toggle` commands in a row, with the debug flag not
\* changed by anything else in between, the orchestrator's debug flag is what
\* it was before the first, and the second reply reports that value.
C10_ToggleTwice ==
    Len(toggles) = 2 =>
        /\ debug = toggles[1].before
        /\ toggles[2].reply = toggles[1].before

\* Two toggles in a row that started from debug on, with modules registered.
C10_Witness ==
    /\ Len(toggles) = 2
    /\ toggles[1].before = TRUE
    /\ Len(modules) >= 2

(***************************************************************************)
(* Claims about the control socket, checked under SpecCtl.                 *)
(***************************************************************************)
Served == ctl.conn # 0
ServedWords == Served /\ ctl.line.kind = "words"
ServedArgs == ctl.line.args
PairsOf(dict) == {<<k, dict[k]>> : k \in DOMAIN dict}

\* The line is `call <Module> <method> <json-object>`: the object arrives as one
\* token, the module is registered and has the method.
CallWithObject ==
    /\ ServedWords
    /\ Lower(ctl.line.cmd) = "call"
    /\ Len(ServedArgs) = 3
    /\ ServedArgs[3].shape = "object"
    /\ ServedArgs[3].quoted
    /\ GetModule(modules, ServedArgs[1].text) # None
    /\ ResolveMethod(GetModule(modules, ServedArgs[1].text),
                     ServedArgs[2].text) # None

\* C11: `call <Module> <method> <json-object>` invokes the named method of the
\* named module with exactly the members of the JSON object as keyword
\* arguments, and when the method returns its keyword arguments unchanged the
\* reply is ok with that same object as its result.
C11_CallPassesObject ==
    CallWithObject =>
        LET mod == GetModule(modules, ServedArgs[1].text)
            sent == {ServedArgs[3].members[i] :
                        i \in 1..Len(ServedArgs[3].members)}
        IN  /\ ctl.invoked.mod = mod
            /\ ctl.invoked.method = ResolveMethod(mod, ServedArgs[2].text)
            /\ PairsOf(ctl.invoked.kwargs) = sent
            /\ ctl.invoked.method = "echo_back" =>
                    /\ ctl.reply.ok
                    /\ DOMAIN ctl.reply = {"ok", "payload"}
                    /\ DOMAIN ctl.reply.payload = {"result"}
                    /\ PairsOf(ctl.reply.payload.result) = sent

\* The plugin's echo method, named with a dash and reached through the
\* title-cased module name, got both members and gave them back.
C11_Witness ==
    /\ CallWithObject
    /\ ServedArgs[1].text = "plugin"
    /\ ServedArgs[2].text = "echo-back"
    /\ ctl.invoked.method = "echo_back"
    /\ ctl.reply.ok
    /\ ctl.reply.payload.result = [a |-> "1", b |-> "2"]

\* What one connection has read, served and written at each point of its
\* handler when a request line came in.
OneRequestOneReply(k) ==
    /\ k.reads <= 1 /\ k.served <= 1 /\ k.writes <= 1
    /\ k.st \in {"free", "accepted"} => k.reads = 0 /\ k.served = 0 /\ k.writes = 0
    /\ k.st = "calling" => k.reads = 1 /\ k.served = 1 /\ k.writes = 0
    /\ k.st = "written" => k.reads = 1 /\ k.served = 1 /\ k.writes = 1

\* C12: on every accepted connection on which a request line arrives, the
\* handler reads that one line, writes exactly one complete reply line, a JSON
\* object with a boolean ok, and then closes without serving a second request,
\* however the handlers of concurrent connections interleave; a connection
\* whose peer goes away before any data is closed with no reply.
C12_OneReplyPerRequest ==
    /\ \A c \in Conns :
        /\ OneRequestOneReply(conns[c])
        /\ conns[c].st = "closed" =>
              \/ conns[c].reads = 1 /\ conns[c].served = 1 /\ conns[c].writes = 1
              \/ conns[c].reads = 0 /\ conns[c].served = 0 /\ conns[c].writes = 0
    /\ Served =>
        /\ "ok" \in DOMAIN ctl.reply
        /\ ctl.reply.ok \in BOOLEAN
        /\ conns[ctl.conn].st = "written"

\* C12 as stated: every accepted connection that has been closed has read one
\* request line and has written one reply line.
C12_EveryConnectionReplies ==
    \A c \in Conns :
        conns[c].st = "closed" => conns[c].reads = 1 /\ conns[c].writes = 1

\* The first connection awaits a coroutine method while the second one has
\* been accepted, served and closed.
C12_Witness ==
    /\ conns[1].st = "calling"
    /\ conns[2].st = "closed"
    /\ conns[2].writes = 1

Commands ==
    {"ping", "hi", "status", "debug", "trace", "snapshot", "speak", "phrase",
     "mods", "modules", "help", "call"}

\* The requests the handler has to refuse: an unknown command, `call` or `help`
\* naming a module the registry does not hold, `call` naming a method the
\* module does not have.
Refused ==
    /\ ServedWords
    /\ \/ Lower(ctl.line.cmd) \notin Commands
       \/ /\ Lower(ctl.line.cmd) = "help"
          /\ Len(ServedArgs) >= 1
          /\ GetModule(modules, ServedArgs[1].text) = None
       \/ /\ Lower(ctl.line.cmd) = "call"
          /\ Len(ServedArgs) >= 2
          /\ \/ GetModule(modules, ServedArgs[1].text) = None
             \/ ResolveMethod(GetModule(modules, ServedArgs[1].text),
                              ServedArgs[2].text) = None

\* C13: an empty line, a line with unbalanced quoting, an unknown command, a
\* `call` or `help` naming an unknown module and a `call` naming an unknown
\* method each get the reply {ok: false, error: <string>}; no exception leaves
\* the handler, and the tick counter, the debug and trace flags and the module
\* registry are what they were.
C13_BadRequestRefused ==
    (Served /\ (ctl.line.kind \in {"blank", "unbalanced"} \/ Refused)) =>
        /\ ~ctl.escaped
        /\ DOMAIN ctl.reply = {"ok", "error"}
        /\ ctl.reply.ok = FALSE
        /\ ctl.reply.error \in STRING
        /\ ~ctl.changed
        /\ conns[ctl.conn].writes = 1

\* An unbalanced quote arrives on a running orchestrator that has pulsed, with
\* the plugin registered.
C13_Witness ==
    /\ Served
    /\ ctl.line.kind = "unbalanced"
    /\ ctl.reply.ok = FALSE
    /\ tick_count > 0
    /\ InSeq(modules, "Plugin")

ServedStatus == ServedWords /\ Lower(ctl.line.cmd) = "status"

\* C14: `status` replies ok with the blackboard's tick, which is 0 before the
\* first pulse, with the status "Initializing" when nothing has been attached,
\* with the lists of attached modules and with the debug and trace flags as
\* they are, and it changes nothing in the orchestrator.
C14_StatusReadsState ==
    ServedStatus =>
        /\ ctl.reply.ok
        /\ ctl.reply.payload.tick = data_store_tick
        /\ pulses = 0 => ctl.reply.payload.tick = 0
        /\ (attached_internal = <<>> /\ attached_prosthetic = <<>>)
               => ctl.reply.payload.status = "Initializing"
        /\ ctl.reply.payload.modules.internal = attached_internal
        /\ ctl.reply.payload.modules.prosthetic = attached_prosthetic
        /\ ctl.reply.payload.debug = debug
        /\ ctl.reply.payload.trace = trace
        /\ ~ctl.changed

\* `status` after a pulse, with the plugin registered but not attached because
\* its hook threw, and with debug switched on by an earlier command.
C14_Witness ==
    /\ ServedStatus
    /\ ctl.reply.payload.tick > 0
    /\ InSeq(modules, "Plugin")
    /\ ctl.reply.payload.modules.prosthetic = <<>>
    /\ ctl.reply.payload.debug

(***************************************************************************)
(* Claims about the Mood Engine, checked under SpecMood.                   *)
(***************************************************************************)
Resolved == mop.op \in {"resolve", "tick"} /\ ~mop.resumed
Highest(m) == \A e \in Emotions : mood_scores[e] <= mood_scores[m]
LevelTable ==
    [happy |-> 5, neutral |-> 4, anxious |-> 3, angry |-> 2, glitched |-> 1]

\* C15: with no override set, when a resolution of the mood has completed the
\* current emotion is one with the highest score (sad for happy 10, sad 40,
\* neutral 5), and the alert level reported for it is the fixed value of the
\* level table for that emotion, 4 for an emotion the table does not list.
C15_ResolveYieldsDominant ==
    (Resolved /\ override_mood = None) =>
        /\ current_mood = mop.mood
        /\ GetMood = current_mood
        /\ Highest(GetMood)
        /\ GetDefconLevel = IF GetMood \in DOMAIN LevelTable
                            THEN LevelTable[GetMood] ELSE 4

\* The scenario: happy 10, sad 40, neutral 5 resolves to sad at level 4.
C15_Witness ==
    /\ mop.op = "resolve"
    /\ override_mood = None
    /\ mood_scores["happy"] = 10
    /\ mood_scores["sad"] = 40
    /\ mood_scores["neutral"] = 5
    /\ GetMood = "sad"
    /\ GetDefconLevel = 4

\* C16: in every reachable state every emotion's score lies in [0,100].
C16_ScoresInRange ==
    \A e \in Emotions : mood_scores[e] >= 0 /\ mood_scores[e] <= 100

JustSet == mop.op = "set_mood" /\ mop.done

C19_AnnouncementsDebounced ==
    (mop # NoMoodOp /\ mop.emitted /\ mop.prev # NoMoodOp) =>
        /\ announced.level # mop.prev.level
        /\ announced.at - mop.prev.at >= defcon_gap

(***************************************************************************)
(* Claims about the scan, checked under Spec.                              *)
(***************************************************************************)
Registered(m) == InSeq(modules, m)
BeingAttached(m) == attaching # NoAttach /\ attaching.name = m

\* C20: a module file that fails to load and a module whose init() or
\* initialize() raises do not end scan_and_attach: no file is dropped from the
\* scan, run_forever() is reached only after every file was visited, and a
\* module whose attach() did not finish has no entry in ready_modules and is in
\* no attached list, though it may be in the registry.
C20_ScanSurvivesFailure ==
    /\ scan_left \cup scanned = Catalogue
    /\ boot = "running" => scanned = Catalogue
    /\ \A m \in Catalogue :
          (m \in scanned /\ ~BeingAttached(m) /\ ~Attached(m)) =>
              /\ m \notin DOMAIN ready_modules
              /\ ready_writes[m] = 0

\* The Mood Engine's hook raised and LlmModel failed to load, and the Plugin,
\* scanned after both, is attached and marked ready.
C20_Witness ==
    /\ boot = "running"
    /\ Registered("Mood Engine")
    /\ ~Attached("Mood Engine")
    /\ ~Registered("LlmModel")
    /\ Attached("Plugin")
    /\ ready_modules["Plugin"]

(***************************************************************************)
(* Claims about the host's boot and shutdown, checked under SpecHost.      *)
(***************************************************************************)
Occurrences(seq, x) == Cardinality({i \in 1..Len(seq) : seq[i] = x})

\* C21: scan_and_attach never loads or attaches the file of the memory cortex
\* the host handed in, whose key is in the ghost set: the Memory Cortex is in
\* the registry once, in the internal list once and in no other, and its
\* readiness entry was written once, by the constructor, and still holds the
\* readiness it had then.
C21_GhostNeverAttached ==
    /\ MemoryCortex \notin scanned
    /\ ~BeingAttached(MemoryCortex)
    /\ Occurrences(modules, MemoryCortex) = 1
    /\ Occurrences(attached_internal, MemoryCortex) = 1
    /\ Occurrences(attached_prosthetic, MemoryCortex) = 0
    /\ ready_writes[MemoryCortex] = 1
    /\ ready_modules[MemoryCortex] = mod_ready[MemoryCortex]

\* Both scans are over: the cortex's file was passed over, the language
\* model's file next to it was attached, and the orchestrator pulses.
C21_Witness ==
    /\ boot = "running"
    /\ MemoryCortex \notin scan_left
    /\ MemoryCortex \notin scanned
    /\ Attached("LlmModel")
    /\ modules = <<MemoryCortex, "LlmModel">>
    /\ pulses > 0

\* C22: once the run-forever task was cancelled it has returned for good and
\* without an exception, no pulse follows and tick_count and the tick on the
\* blackboard never change again; the cancellation itself touches neither the
\* control socket's task nor the decision-cycle task, which goes on setting
\* the debug flag.
C22_CancelStopsPulses ==
    /\ [][boot = "cancelled" =>
            /\ boot' = "cancelled"
            /\ tick_count' = tick_count
            /\ data_store_tick' = data_store_tick
            /\ pulses' = pulses
            /\ cpc' = "idle"]_vars
    /\ [][(boot = "running" /\ boot' = "cancelled") =>
            /\ socket_task' = socket_task
            /\ tick_count' = tick_count]_vars
    /\ [](boot = "cancelled" /\ CoreIdle /\ InSeq(modules, "LlmModel")
            /\ mod_ready["LlmModel"] => ENABLED BrainDebug)

\* Cancelled after two pulses, with the control socket still listening and
\* the language model still registered and ready for the decision cycle.
C22_Witness ==
    /\ boot = "cancelled"
    /\ tick_count = 2
    /\ pulses = 2
    /\ socket_task = "serving"
    /\ InSeq(modules, "LlmModel")
    /\ mod_ready["LlmModel"]
    /\ ENABLED BrainDebug

NoRemoteControl == \A c \in Conns : conns[c] = FreeConn

\* C23: when the control socket cannot be bound, the step that fails changes
\* nothing in the orchestrator; from then on no connection is ever accepted,
\* and the boot, the pulse loop and the decision-cycle task go on as they
\* would have: the scan hands over to run_forever, pulse() runs whenever the
\* loop is due, and the decision cycle sets the debug flag.
C23_BindFailureContained ==
    /\ [][(socket_task # "failed" /\ socket_task' = "failed") =>
            UNCHANGED coreVars]_vars
    /\ [](socket_task = "failed" =>
            /\ boot \in {"scanning", "running", "cancelled"}
            /\ NoRemoteControl
            /\ (boot = "scanning" /\ scan_left = {} /\ attaching = NoAttach)
                  => ENABLED RunForever
            /\ (boot = "running" /\ cpc = "idle" /\ pulses < MaxPulses)
                  => ENABLED Pulse
            /\ (boot # "scanning" /\ cpc = "idle" /\ InSeq(modules, "LlmModel")
                  /\ mod_ready["LlmModel"]) => ENABLED BrainDebug)

\* The bind has failed and the orchestrator has pulsed three times since, with
\* the language model attached and ready.
C23_Witness ==
    /\ socket_task = "failed"
    /\ boot = "running"
    /\ pulses = MaxPulses
    /\ tick_count = MaxPulses
    /\ Attached("LlmModel")
    /\ mod_ready["LlmModel"]
    /\ NoRemoteControl


(***************************************************************************)
(* Claims about the quiet hours and the plan, checked under SpecQuiet and  *)
(* SpecSched.                                                              *)
(***************************************************************************)

\* The hour h lies in the window from a to b, which wraps past midnight when
\* a > b.
InWindow(a, b, h) == IF a < b THEN a <= h /\ h < b ELSE h >= a \/ h < b

\* C24: with quiet hours enabled for start hour a and end hour b (a # b), a tick
\* of the ready engine is suppressed exactly when the local hour is in the
\* window (a <= h < b, or h >= a or h < b when the window wraps past midnight);
\* with quiet hours disabled no tick is suppressed; a suppressed tick scores
\* nothing, executes nothing and leaves the cooldown and announce timestamps.
C24_QuietHoursSuppress ==
    /\ [](pc # "idle" /\ ready =>
            /\ (quiet_hours.enabled /\ quiet_hours.start # quiet_hours.end
                  => (pc = "skipped"
                        <=> InWindow(quiet_hours.start, quiet_hours.end, ev.hour)))
            /\ (~quiet_hours.enabled => pc # "skipped"))
    /\ [][pc = "skipped" \/ pc' = "skipped"
            => /\ UNCHANGED <<last_run, last_chat, journal, delivered>>
               /\ ev'.scores = NoCycle.scores /\ ev'.plan = None]_vars

\* A tick at 2 o'clock under the window from 22 to 6, after an earlier cycle
\* fired an action: it is suppressed.
C24_Witness ==
    /\ pc = "skipped" /\ ready
    /\ quiet_hours = [enabled |-> TRUE, start |-> 22, end |-> 6]
    /\ ev.hour = 2
    /\ \E a \in ActionNames : last_run[a] # 0


\* C25: in a decision cycle with no eligible entry plan() returns nothing, no
\* action is executed and no timestamp changes; otherwise the planned entry is
\* eligible and no eligible entry has a higher mood-weighted score, and no
\* action but the planned one is executed before the cycle returns.
C25_PlanPicksMaximum ==
    /\ [][pc = "evaluated" /\ pc' = "executed" =>
            IF Candidates(ev.scores) = {}
            THEN /\ ev'.plan = None /\ ev'.result = NoCycle.result
                 /\ UNCHANGED <<last_run, last_chat, journal, delivered>>
            ELSE /\ ev'.plan \in Candidates(ev.scores)
                 /\ \A b \in Candidates(ev.scores) :
                       ev.scores[b] <= ev.scores[ev'.plan]
                 /\ \A a \in ActionNames \ {ev'.plan} :
                       last_run'[a] = last_run[a] /\ delivered'[a] = delivered[a]
                 /\ journal' \in {journal, journal + 1}]_vars
    /\ [][pc = "executed"
            => UNCHANGED <<last_run, last_chat, journal, delivered>>]_vars

\* A cycle that dispatched its plan, which tied with another eligible entry
\* at the top and had a third entry below it.
C25_Witness ==
    /\ pc = "executed" /\ ev.plan # None /\ ev.result \in Dispatched
    /\ \E b \in Candidates(ev.scores) \ {ev.plan} :
          ev.scores[b] = ev.scores[ev.plan]
    /\ \E c \in Candidates(ev.scores) : ev.scores[c] < ev.scores[ev.plan]
    /\ last_run[ev.plan] = now


(***************************************************************************)
(* Claims about the two engines together, checked under SpecGate.          *)
(***************************************************************************)

\* C26: in every decision cycle the alert level of the snapshot, the one the
\* ceiling gate uses, is the Mood Engine's alert level at that moment, and the
\* mood of the snapshot, the one the multiplier uses, is the Mood Engine's
\* current emotion (the one get_mood() returns or the committed one).
C26_GateFollowsMood ==
    InCycle =>
        /\ ev.snap.defcon = GetDefconLevel
        /\ ev.snap.mood \in {GetMood, current_mood}


(***************************************************************************)
(* Claims about the decay tick and the signal inputs, checked under        *)
(* SpecMood.                                                               *)
(***************************************************************************)
TickStep == mop = NoMoodOp /\ mop'.op = "tick" /\ ~mop'.resumed

\* C27: a decay tick lowers every score above 0 by exactly 1 and leaves the
\* other scores as they are; it then commits the dominant emotion of the new
\* scores, and stores it in the memory cortex when one is bound, only if that
\* emotion differs from the current one; a tick whose dominant emotion is the
\* current one commits and persists nothing.
C27_DecayThenLazyCommit ==
    [][TickStep =>
         /\ \A m \in Emotions :
               mood_scores'[m] = IF mood_scores[m] > 0 THEN mood_scores[m] - 1
                                 ELSE mood_scores[m]
         /\ IF Dominant(mood_scores') # current_mood
            THEN /\ current_mood' = Dominant(mood_scores')
                 /\ cortex => persisted' = Dominant(mood_scores')
                 /\ ~cortex => persisted' = persisted
            ELSE UNCHANGED <<current_mood, persisted>>]_vars

\* initialize(), set_mood("happy", -5), then the tick: neutral decays from 100
\* to 99, is dominant, and replaces happy as the committed and stored emotion.
C27_Witness ==
    /\ mop.op = "tick" /\ mops = 3 /\ cortex
    /\ override_mood = "happy" /\ mood_scores["happy"] = -5
    /\ mood_scores["neutral"] = 99
    /\ current_mood = "neutral" /\ persisted = "neutral"


\* C28: with no signal input and no override, repeated decay ticks reach a
\* fixed point after finitely many ticks: from then on every score is 0 and
\* the current emotion is neutral.
C28_DecaySettlesNeutral ==
    <>[](/\ \A m \in Emotions : mood_scores[m] = 0
         /\ current_mood = "neutral")


\* The scores move only at the emotions of `named`, each by a clamped
\* addition of one of `deltas`.
Touches(named, deltas) ==
    \A m \in Emotions :
        \/ mood_scores'[m] = mood_scores[m]
        \/ /\ m \in named
           /\ \E d \in deltas : mood_scores'[m] = Clamp(mood_scores[m] + d)

SignalStep ==
    \/ AdjustMood \/ UpdateFromHeartbeat \/ UpdateFromNetwork
    \/ UpdateFromError \/ UpdateFromIdle

\* C29: update_from_heartbeat, update_from_network, update_from_idle,
\* update_from_error and adjust_mood change only the scores of the emotions
\* their rule names, by clamped addition; the committed current emotion, the
\* override, the stored mood and the last announced alert level stay as they
\* are.
C29_SignalsTouchScoresOnly ==
    [][/\ SignalStep
          => UNCHANGED <<current_mood, override_mood, persisted, last_defcon,
                         last_defcon_ts, announced, cortex>>
       /\ UpdateFromHeartbeat => Touches({"anxious", "angry", "sad"}, {10, 5})
       /\ UpdateFromNetwork => Touches({"anxious", "happy"}, {10, 5})
       /\ UpdateFromError => Touches({"glitched", "angry", "sad"}, {20, 10, 5})
       /\ UpdateFromIdle => Touches({"anxious", "sad"}, {5, 3})
       /\ AdjustMood
          => \E a \in AdjustArgs : Touches({a[1]}, {a[2]})]_vars

\* initialize(), adjust_mood("neutral", -200), adjust_mood("sad", 40): sad now
\* has the highest score, and neutral is still the committed and stored
\* emotion.
C29_Witness ==
    /\ mop = NoMoodOp /\ mops = 3 /\ cortex
    /\ mood_scores["neutral"] = 0 /\ mood_scores["sad"] = 40
    /\ Dominant(mood_scores) = "sad"
    /\ current_mood = "neutral" /\ persisted = "neutral"
    /\ last_defcon = NoLevel


\* C30: while a manual override is set it keeps precedence wherever the mood
\* is read: get_mood() returns the override, and the mood stored in the memory
\* cortex, once it is the override, stays the override across decay ticks and
\* signal adjustments for as long as the override is not cleared or replaced.
C30_OverrideKeepsPrecedence ==
    /\ [](override_mood # None => GetMood = override_mood)
    /\ [][(/\ override_mood # None
           /\ persisted = override_mood
           /\ override_mood' = override_mood)
            => persisted' = override_mood]_vars


(***************************************************************************)
(* Claims about the names of the emotions, checked under SpecGiven.        *)
(***************************************************************************)

\* C31: after any sequence of initialize, set_mood, override, adjust_mood and
\* decay ticks the emotion get_mood() returns and the committed current
\* emotion are members of the fixed set of seven emotions, and the score table
\* has no key outside that set.
C31_EmotionsStayInSet ==
    /\ GetMood \in Emotions
    /\ current_mood # None => current_mood \in Emotions
    /\ DOMAIN mood_scores \subseteq Emotions


(***************************************************************************)
(* Claims about the direct responses, checked under SpecSched.             *)
(***************************************************************************)
DirectResponse == pc = "evaluated" /\ pc' = "executed" /\ ev'.result = "voice_only"

\* C32: the texts of the direct responses, whichever action asks, go out at
\* least announce_gap seconds apart: a text goes out only when the gap since
\* the shared last-announce timestamp has passed, and it moves the timestamp
\* to now; a direct response asked for within the gap emits no text and
\* leaves the timestamp as it was.
C32_AnnounceGapShared ==
    [][DirectResponse =>
         /\ ev'.emitted => now - last_chat >= announce_gap /\ last_chat' = now
         /\ now - last_chat < announce_gap
               => ~ev'.emitted /\ last_chat' = last_chat]_vars

\* A second direct response in the second in which another action's direct
\* response moved the timestamp: no text, and the timestamp is still that
\* second.
C32_Witness ==
    /\ pc = "executed" /\ ev.result = "voice_only" /\ ~ev.emitted
    /\ last_chat = now
    /\ \E a \in ActionNames \ {ev.plan} :
          Policy(a).module = None /\ ev.before[a] = now


(***************************************************************************)
(* Claims about attach() and pulse(), checked under Spec.                  *)
(***************************************************************************)
Registering == attaching = NoAttach /\ attaching' # NoAttach

\* C33: when attach() has written a module's flags, the module's debug flag
\* is its own earlier flag or the orchestrator's debug flag, and its trace
\* flag, when it has one, likewise; a flag of the module that was true is
\* still true.
C33_FlagsNeverDowngraded ==
    [][Registering =>
         LET m == attaching'.name IN
         /\ m \in DOMAIN mod_debug
              => /\ mod_debug'[m] = (mod_debug[m] \/ debug)
                 /\ mod_debug[m] => mod_debug'[m]
         /\ HasTrace(m)
              => /\ mod_trace'[m] = (mod_trace[m] \/ trace)
                 /\ mod_trace[m] => mod_trace'[m]]_vars

\* The Mood Engine is being attached while the orchestrator's debug and
\* trace flags are off, and the flags it came with are still on.
C33_Witness ==
    /\ attaching.name = "Mood Engine" /\ attaching.step = "registered"
    /\ ~debug /\ ~trace
    /\ mod_debug["Mood Engine"] /\ mod_trace["Mood Engine"]


\* C34: pulse() never waits for a coroutine pulse method: it schedules the
\* method as a task and goes on, so the pulse methods of the modules registered
\* after it are still invoked in the same pulse, the task is still unfinished
\* when pulse() is about to return, and the next pulse can start while tasks of
\* earlier pulses are unfinished; a synchronous pulse method is called inline.
ScheduledNow == {j \in 1..Len(pulse.log) : pulse.log[j].how = "scheduled"}

C34_AsyncPulseNotAwaited ==
    /\ cpc = "pulsed" =>
          /\ \A j \in 1..Len(pulse.log) :
                (j \in ScheduledNow)
                    = IsCoroutine(pulse.log[j].mod, pulse.log[j].method)
          /\ \A j \in ScheduledNow : \A i \in 1..Len(modules) :
                (IndexOf(modules, pulse.log[j].mod) < i
                    /\ PulseList(modules[i]) # <<>>)
                => \E k \in (j + 1)..Len(pulse.log) :
                      /\ pulse.log[k].mod = modules[i]
                      /\ pulse.log[k].method = PulseList(modules[i])[1]
          /\ tasks >= Cardinality(ScheduledNow)
    /\ (CoreIdle /\ InPulseLoop(boot) /\ pulses < MaxPulses) => ENABLED Pulse

\* A second pulse or a later one has scheduled the plugin's coroutine and then
\* called the module registered after it, while a task of an earlier pulse is
\* still unfinished.
C34_Witness ==
    /\ cpc = "pulsed" /\ pulses >= 2
    /\ tasks > Cardinality(ScheduledNow)
    /\ \E j \in ScheduledNow : \E k \in (j + 1)..Len(pulse.log) :
          /\ pulse.log[k].mod = Lokisfury
          /\ pulse.log[k].how = "called"


\* C35: when a decay tick or a set_mood announces while another decay tick or
\* set_mood is suspended at an await inside _announce_defcon, its announcement
\* still differs in level from the announcement before it and comes at least
\* defcon_gap seconds after it.
Interleaved ==
    /\ mop # NoMoodOp /\ mop.op \in {"tick", "set_mood"}
    /\ mop.emitted /\ mop.done
    /\ pending # NoMoodOp /\ pending.op \in {"tick", "set_mood"}

C35_InterleavedAnnouncementsDebounced ==
    (Interleaved /\ mop.prev # NoMoodOp) =>
        /\ announced.level # mop.prev.level
        /\ announced.at - mop.prev.at >= defcon_gap


\* attach(): init() and initialize() have returned for the module; a module
\* handed in at construction was set up by the host.
HooksDone(m) ==
    \/ Attached(m)
    \/ BeingAttached(m) /\ attaching.step = "hooked"

AttachedNames ==
    {attached_internal[i] : i \in 1..Len(attached_internal)}
        \cup {attached_prosthetic[i] : i \in 1..Len(attached_prosthetic)}

C37_AttachedAreRegistered ==
    /\ [](\A m \in AttachedNames : Registered(m) /\ m \in DOMAIN ready_modules)
    /\ [][\A m \in Names :
            (~Attached(m) /\ Attached(m)') =>
                /\ attaching = [name |-> m, step |-> "hooked"]
                /\ Registered(m)]_vars

\* The orchestrator runs with the Memory Cortex and the Plugin attached, while
\* the Mood Engine, whose hook raised, is in the registry and in no list.
C37_Witness ==
    /\ boot = "running"
    /\ Attached(MemoryCortex) /\ Attached("Plugin")
    /\ Registered("Mood Engine")
    /\ "Mood Engine" \notin AttachedNames
    /\ "Mood Engine" \notin DOMAIN ready_modules


\* The moods evaluate() can be handed: the seven of its table and any other word.
SnapshotMoods == Emotions \cup {"dreamy"}

\* C38: for the snapshot, the timestamps and the time of a decision cycle, the
\* set of scored actions and the set of maximum-score actions are the same under
\* every mood: the mood multiplier is one positive factor for all actions of
\* the cycle, so it never changes which action can be selected.
C38_MoodNeverChangesSelection ==
    pc = "evaluated" =>
        /\ ev.scores = Evaluate(ev.snap, ev.before, now)
        /\ \A m \in SnapshotMoods :
            LET alt == Evaluate([ev.snap EXCEPT !.mood = m], ev.before, now) IN
            /\ MoodBias(m) > 0
            /\ Candidates(alt) = Candidates(ev.scores)
            /\ PlanChoices(alt) = PlanChoices(ev.scores)

\* A cycle under the mood with the smallest multiplier scores several actions,
\* two of them at the maximum and one below it.
C38_Witness ==
    /\ pc = "evaluated" /\ ev.snap.mood = "glitched"
    /\ Cardinality(PlanChoices(ev.scores)) >= 2
    /\ Candidates(ev.scores) # PlanChoices(ev.scores)
    /\ \E a \in ActionNames : now - ev.before[a] < Policy(a).cooldown


\* C39: a direct-response action's last-fired timestamp is advanced only in a
\* cycle in which its text was emitted through the voice channel; a text held
\* back by the announce gap, or one with no ready voice module, leaves the
\* action's cooldown unconsumed.
C39_StampOnlyWhenEmitted ==
    (pc = "executed" /\ ev.result = "voice_only"
        /\ last_run[ev.plan] # ev.before[ev.plan]) => ev.emitted


\* C40: an action that is scored in every decision cycle (its alert ceiling and
\* its cooldown let it through and its score is positive), and whose own
\* dispatch does not fail, is eventually executed, also when the target of a
\* higher-scoring delegated action is missing in every cycle.
C40_EligibleEventuallyExecuted ==
    \A a \in ActionNames :
        ([](pc = "evaluated" => ev.scores[a] > 0)
            /\ [](pc = "executed" /\ ev.plan = a => ev.result \in Dispatched))
        => <>(pc = "executed" /\ ev.plan = a /\ ev.result \in Dispatched)

====
